---------------------------- MODULE Spec2Model ----------------------------
(***************************************************************************)
(* Lifecycle orchestration core of llm-manager-api: the model state        *)
(* machine, the deployment and download managers and the event queue.      *)
(*                                                                         *)
(* The module holds these specifications over one set of variables:        *)
(*   SpecSM      ModelStateMachine.transition / force_state, called by     *)
(*               concurrent callers against the configured database        *)
(*   SpecSMRaising  transition with a failing record or notification       *)
(*   SpecSMCommit   transition / force_state with a failing commit         *)
(*   SpecDeploy  DeploymentService and the processes it launches           *)
(*   SpecDeployPar  the same with two start requests served at a time      *)
(*   SpecDeployCreate   create_deployment on two threads, check and insert *)
(*   SpecDeployStart    start_deployment on two threads, check and launch  *)
(*   SpecDeployStorage  stop_deployment with a storage error in transition *)
(*   SpecDeploySM       start_deployment beside other state-machine calls  *)
(*   SpecDL      DownloadService and the Celery download workers           *)
(*   SpecDLMaintenance  SpecDL with the maintenance tasks of the workers   *)
(*   SpecDLProgress     SpecDL with the progress reports of a transfer     *)
(*   SpecEQ      EventQueue: publishers, listener threads, start and stop  *)
(*   SpecEQRaising  SpecEQ with callbacks that raise                       *)
(*   SpecEQDrain    SpecEQ with every event published after registration   *)
(*   SpecEQLive     SpecEQ with its threads scheduled fairly               *)
(*   SpecEQRestart  start_listeners again after stop_listeners             *)
(*   SpecMonitor    MonitorService: start, stop and the worker thread      *)
(* Each specification leaves the variables of the other parts unchanged.   *)
(***************************************************************************)
EXTENDS Integers, Sequences, FiniteSets, TLC

VARIABLES
    backend,      \* database behind SQLALCHEMY_DATABASE_URI
    status,       \* models.status, per model row
    rowLock,      \* holder of the row lock of each model row
    txn,          \* per caller: the state-machine call in progress
    win,          \* the calls that overlapped since the row was last quiet
    history,      \* the state-change records _record_state_change wrote
    logged,       \* how often the record or the notification of a change raised
    queues,       \* EventQueue.queues, one FIFO per EventType
    deployments,  \* the deployments table, per deployment id
    procs,        \* the processes the launchers spawned, per pid
    starters,     \* per thread: the start_deployment call in progress
    lastOp,       \* the call of the last step: its result and the events it raised
    running,      \* EventQueue.running
    callbacks,    \* the event types with a broadcast callback registered
    listeners,    \* per event type: the listener thread, where it is in its loop
    published,    \* per event type: how many events have been put
    delivered,    \* per event type: the events its callback was called with
    exiting,      \* the shutdown of the process: "no", "stopping", "stopped"
    detached,     \* per event type: the listener thread of the run before, no
                  \* longer in EventQueue.listeners
    monitor,      \* MonitorService: monitoring, the join of stop_monitoring,
                  \* monitor_thread and the worker thread of the run before
    tasks,        \* the download_tasks table, per task id
    files,        \* per model: whether its download path exists on disk
    workers       \* the executions of download_model_task, per submission

smVars == <<backend, status, rowLock, txn, win, history, logged>>
dpVars == <<deployments, procs, starters>>
eqVars == <<running, callbacks, listeners, published, delivered, exiting, detached,
           monitor>>
vars == <<backend, status, rowLock, txn, win, history, logged, queues, deployments, procs,
          starters, lastOp, running, callbacks, listeners, published,
          delivered, exiting, detached, monitor, tasks, files, workers>>
dlVars == <<tasks, files, workers>>

None == "none"

(***************************************************************************)
(* Bounds of the model.                                                    *)
(***************************************************************************)
MaxQueue == 2      \* events waiting in one queue
MaxLogged == 1     \* failures of the record or the notification in one behaviour
PortSpan == 2      \* ports in the allocation range (the code scans 8000..9000)
MaxProcs == 2      \* processes spawned in one behaviour
MaxPolls == 2      \* iterations of the startup wait (the code: 120 s / 5 s)
MaxEvents == 2     \* events put on one queue in one behaviour
MaxWorkers == 2    \* submissions of download_model_task in one behaviour
MaxBytes == 2      \* size of a model's files, in the units the transfer reports

(***************************************************************************)
(* ModelState, ModelEvent and the transition table.                        *)
(***************************************************************************)
ModelKeys == {"m1", "m2"}

ModelState == {"inactive", "downloading", "deploying", "active", "training", "error"}

ModelEvent ==
    {"download_started", "download_completed", "download_failed",
     "download_cancelled", "deploy_started", "deploy_completed",
     "deploy_failed", "deploy_stopped", "health_check_failed",
     "manual_error_set", "manual_reset"}

\* models.status is a free string column; its comment lists 'deprecated',
\* which is no ModelState.  NoRow stands for a model key without a row.
NoRow == "no_row"
StoredStatus == ModelState \cup {"deprecated"}

TRANSITIONS_extra ==
    {<<"inactive", "download_started", "downloading">>,
     <<"inactive", "deploy_started", "deploying">>,
     <<"downloading", "download_completed", "inactive">>,
     <<"downloading", "download_failed", "error">>,
     <<"downloading", "download_cancelled", "inactive">>,
     <<"downloading", "deploy_started", "deploying">>,
     <<"deploying", "deploy_completed", "active">>,
     <<"deploying", "deploy_failed", "error">>,
     <<"deploying", "deploy_stopped", "inactive">>,
     <<"active", "deploy_stopped", "inactive">>,
     <<"active", "health_check_failed", "error">>,
     <<"active", "deploy_started", "deploying">>,
     <<"active", "download_started", "downloading">>,
     <<"error", "download_started", "downloading">>,
     <<"error", "deploy_started", "deploying">>,
     <<"error", "manual_reset", "inactive">>,
     <<"training", "manual_reset", "inactive">>,
     <<"inactive", "manual_error_set", "error">>,
     <<"downloading", "manual_error_set", "error">>,
     <<"deploying", "manual_error_set", "error">>,
     <<"active", "manual_error_set", "error">>,
     <<"training", "manual_error_set", "error">>}

TRANSITIONS_retarget ==
    {<<"inactive", "download_started", "downloading">>,
     <<"inactive", "deploy_started", "deploying">>,
     <<"downloading", "download_completed", "active">>,
     <<"downloading", "download_failed", "error">>,
     <<"downloading", "download_cancelled", "inactive">>,
     <<"downloading", "deploy_started", "deploying">>,
     <<"deploying", "deploy_completed", "active">>,
     <<"deploying", "deploy_failed", "error">>,
     <<"active", "deploy_stopped", "inactive">>,
     <<"active", "health_check_failed", "error">>,
     <<"active", "deploy_started", "deploying">>,
     <<"active", "download_started", "downloading">>,
     <<"error", "download_started", "downloading">>,
     <<"error", "deploy_started", "deploying">>,
     <<"error", "manual_reset", "inactive">>,
     <<"training", "manual_reset", "inactive">>,
     <<"inactive", "manual_error_set", "error">>,
     <<"downloading", "manual_error_set", "error">>,
     <<"deploying", "manual_error_set", "error">>,
     <<"active", "manual_error_set", "error">>,
     <<"training", "manual_error_set", "error">>}

\* (current state, event, next state)
TRANSITIONS ==
    {<<"inactive", "download_started", "downloading">>,
     <<"inactive", "deploy_started", "deploying">>,
     <<"downloading", "download_completed", "inactive">>,
     <<"downloading", "download_failed", "error">>,
     <<"downloading", "download_cancelled", "inactive">>,
     <<"downloading", "deploy_started", "deploying">>,
     <<"deploying", "deploy_completed", "active">>,
     <<"deploying", "deploy_failed", "error">>,
     <<"active", "deploy_stopped", "inactive">>,
     <<"active", "health_check_failed", "error">>,
     <<"active", "deploy_started", "deploying">>,
     <<"active", "download_started", "downloading">>,
     <<"error", "download_started", "downloading">>,
     <<"error", "deploy_started", "deploying">>,
     <<"error", "manual_reset", "inactive">>,
     <<"training", "manual_reset", "inactive">>,
     <<"inactive", "manual_error_set", "error">>,
     <<"downloading", "manual_error_set", "error">>,
     <<"deploying", "manual_error_set", "error">>,
     <<"active", "manual_error_set", "error">>,
     <<"training", "manual_error_set", "error">>}

get_valid_transitions(current_state) ==
    {e \in ModelEvent : \E t \in ModelState : <<current_state, e, t>> \in TRANSITIONS}

can_transition(current_state, event) ==
    \E t \in ModelState : <<current_state, event, t>> \in TRANSITIONS

\* dict.get: the target, or None for a pair that has no entry
get_next_state(current_state, event) ==
    IF \E t \in ModelState : <<current_state, event, t>> \in TRANSITIONS
    THEN CHOOSE t \in ModelState : <<current_state, event, t>> \in TRANSITIONS
    ELSE None

\* ModelState(model.status) if model.status else INACTIVE; ValueError -> INACTIVE
current_state_of(stored) ==
    IF stored \in ModelState THEN stored ELSE "inactive"


(***************************************************************************)
(* ModelStateMachine.transition and force_state.                           *)
(*                                                                         *)
(* A call is two steps: the locked read of the model row (SELECT ... FOR   *)
(* UPDATE) and the decision, write, notification and commit that follow.   *)
(* FOR UPDATE is a row lock on postgresql and mysql; the sqlite dialect    *)
(* emits no FOR UPDATE and the default pysqlite driver opens no            *)
(* transaction for a SELECT, so there the read takes no lock.  sqlite is   *)
(* the default SQLALCHEMY_DATABASE_URI.                                    *)
(*                                                                         *)
(* win keeps the calls that overlapped since the rows were last quiet:     *)
(* the statuses when the first of them began and, for each finished call,  *)
(* what it read and what it returned.  A caller makes one call per window. *)
(***************************************************************************)
Backends == {"sqlite", "postgresql"}

Callers == {"c1", "c2"}

Idle == [pc |-> "idle"]

\* what transition() decides for a row whose status column reads `stored`
transition_outcome(stored, event) ==
    LET cur == current_state_of(stored)
        new == get_next_state(cur, event)
    IN  IF stored = NoRow
        THEN [applied |-> FALSE, err |-> "not_found", valid |-> {},
              new |-> stored, changed |-> FALSE]
        ELSE IF ~can_transition(cur, event)
        THEN [applied |-> FALSE, err |-> "invalid",
              valid |-> get_valid_transitions(cur),
              new |-> stored, changed |-> FALSE]
        ELSE IF new = None
        THEN [applied |-> FALSE, err |-> "failed", valid |-> {},
              new |-> stored, changed |-> FALSE]
        ELSE IF cur # new
        THEN [applied |-> TRUE, err |-> None, valid |-> {},
              new |-> new, changed |-> TRUE]
        ELSE [applied |-> TRUE, err |-> "already", valid |-> {},
              new |-> stored, changed |-> FALSE]

force_outcome_by_table(stored, target) ==
    IF stored = NoRow
    THEN [applied |-> FALSE, err |-> "not_found", valid |-> {},
          new |-> stored, changed |-> FALSE]
    ELSE IF \E e \in ModelEvent : <<current_state_of(stored), e, target>> \in TRANSITIONS
    THEN [applied |-> TRUE, err |-> None, valid |-> {},
          new |-> target, changed |-> TRUE]
    ELSE [applied |-> FALSE, err |-> "invalid", valid |-> {},
          new |-> stored, changed |-> FALSE]

\* what force_state() decides: the table is not consulted
force_outcome(stored, target) ==
    IF stored = NoRow
    THEN [applied |-> FALSE, err |-> "not_found", valid |-> {},
          new |-> stored, changed |-> FALSE]
    ELSE [applied |-> TRUE, err |-> None, valid |-> {},
          new |-> target, changed |-> TRUE]

call_outcome(kind, stored, arg) ==
    IF kind = "force" THEN force_outcome(stored, arg)
    ELSE transition_outcome(stored, arg)

\* the change_info _record_state_change logs.  force_state() passes
\* event_data {'force_set': True} (with MANUAL_RESET as the event); no caller
\* of transition() passes that key.  Of the record's fields the model, the
\* new status and the flag are kept.
record_state_change(m, new_status, kind) ==
    [model_id |-> m, new_status |-> new_status, force_set |-> (kind = "force")]

\* the event _notify_state_change hands to push_model_status
status_event(m, new_status) ==
    [type |-> "model_status", id |-> m, status |-> new_status]

CallArgs(kind) == IF kind = "force" THEN ModelState ELSE ModelEvent

InFlight == {c \in Callers : txn[c].pc # "idle"}

\* with_for_update(): whether the read has to wait for the row lock
lock_free(m) == backend = "sqlite" \/ rowLock[m] = None

lock_taken(m, c) ==
    IF backend = "sqlite" \/ status[m] = NoRow THEN rowLock
    ELSE [rowLock EXCEPT ![m] = c]

\* Model.query.filter(...).with_for_update().first()
BeginCall(c, m, kind, arg) ==
    /\ txn[c].pc = "idle"
    /\ lock_free(m)
    /\ \/ InFlight = {}
       \/ \A i \in 1..Len(win.calls) : win.calls[i].caller # c
    /\ txn' = [txn EXCEPT ![c] =
                  [pc |-> "read", model |-> m, kind |-> kind, arg |-> arg,
                   cur |-> status[m]]]
    /\ rowLock' = lock_taken(m, c)
    /\ win' = IF InFlight = {} THEN [base |-> status, calls |-> <<>>] ELSE win
    /\ UNCHANGED <<backend, status, history, logged, queues, dpVars, lastOp, eqVars, dlVars>>

\* the decision, the write, the record, the notification, the commit.
\* recorded and notified tell whether _record_state_change and
\* push_model_status ran through or raised: either exception is caught and
\* logged where it is raised (lines 195-196 and 234-235)
finish_call_raising(c, recorded, notified) ==
    /\ txn[c].pc = "read"
    /\ LET t == txn[c]
           o == call_outcome(t.kind, t.cur, t.arg)
           raised == o.changed /\ ~(recorded /\ notified)
       IN  /\ (o.changed /\ ~raised) => Len(queues["model_status"]) < MaxQueue
           /\ raised => logged < MaxLogged
           /\ ~o.changed => (recorded /\ notified)
           /\ status' = IF o.changed /\ ~raised
                        THEN [status EXCEPT ![t.model] = o.new]
                        ELSE status
           /\ queues' = IF o.changed /\ ~raised
                        THEN [queues EXCEPT !["model_status"] =
                                 Append(@, status_event(t.model, o.new))]
                        ELSE queues
           /\ history' = IF o.changed /\ ~raised
                         THEN Append(history,
                                     record_state_change(t.model, o.new, t.kind))
                         ELSE history
           /\ win' = [win EXCEPT !.calls =
                         Append(@, [caller |-> c, model |-> t.model,
                                    kind |-> t.kind, arg |-> t.arg,
                                    cur |-> t.cur,
                                    applied |-> IF raised THEN FALSE ELSE o.applied,
                                    err |-> IF raised THEN "failed" ELSE o.err,
                                    valid |-> o.valid])]
           /\ logged' = IF raised THEN logged + 1 ELSE logged
    /\ rowLock' = [m \in ModelKeys |-> IF rowLock[m] = c THEN None ELSE rowLock[m]]
    /\ txn' = [txn EXCEPT ![c] = Idle]
    /\ UNCHANGED <<backend, dpVars, lastOp, eqVars, dlVars>>

finish_call(c, recorded, notified) ==
    /\ txn[c].pc = "read"
    /\ LET t == txn[c]
           o == call_outcome(t.kind, t.cur, t.arg)
       IN  /\ (o.changed /\ notified) => Len(queues["model_status"]) < MaxQueue
           /\ (o.changed /\ ~(recorded /\ notified)) => logged < MaxLogged
           /\ logged' = IF o.changed /\ ~(recorded /\ notified)
                        THEN logged + 1 ELSE logged
           /\ ~o.changed => (recorded /\ notified)
           /\ status' = IF o.changed THEN [status EXCEPT ![t.model] = o.new]
                        ELSE status
           /\ queues' = IF o.changed /\ notified
                        THEN [queues EXCEPT !["model_status"] =
                                 Append(@, status_event(t.model, o.new))]
                        ELSE queues
           /\ history' = IF o.changed /\ recorded
                         THEN Append(history,
                                     record_state_change(t.model, o.new, t.kind))
                         ELSE history
           /\ win' = [win EXCEPT !.calls =
                         Append(@, [caller |-> c, model |-> t.model,
                                    kind |-> t.kind, arg |-> t.arg,
                                    cur |-> t.cur, applied |-> o.applied,
                                    err |-> o.err, valid |-> o.valid])]
    /\ rowLock' = [m \in ModelKeys |-> IF rowLock[m] = c THEN None ELSE rowLock[m]]
    /\ txn' = [txn EXCEPT ![c] = Idle]
    /\ UNCHANGED <<backend, dpVars, lastOp, eqVars, dlVars>>

\* a call in which the record and the notification run through
FinishCall(c) == finish_call(c, TRUE, TRUE)


(***************************************************************************)
(* DeploymentService.                                                      *)
(*                                                                         *)
(* A manager call raises its state-machine events through                  *)
(* _trigger_state_event, which runs transition() to completion inside the  *)
(* call: here the call applies transition_outcome in the same step.  The   *)
(* events the call of the last step raised are kept in lastOp.events, in   *)
(* the order raised; lastOp.err is None when the call returned and names   *)
(* the failure otherwise.  A step of the environment leaves NoOp.          *)
(***************************************************************************)
NoOp == [op |-> None]

EventTypes == {"system_metrics", "model_status", "notification"}

TaskIds == {"t1", "t2"}
WorkerIds == 1..MaxWorkers

\* no row of that id yet, and the row of that id deleted
NoTask == [status |-> "absent"]
DeletedTask == [status |-> "deleted"]

\* a submission of download_model_task that was not made yet
NoWorker == [pc |-> "free"]

\* no download task, nothing on disk, nothing submitted
InitDLVars ==
    /\ tasks = [t \in TaskIds |-> NoTask]
    /\ files = [m \in {"m1", "m2"} |-> FALSE]
    /\ workers = [w \in WorkerIds |-> NoWorker]

\* a listener thread that was never started
NoThread == [pc |-> "none"]

\* EventQueue.__init__, before start_listeners and any registration
InitEQVars ==
    /\ running = FALSE
    /\ callbacks = {}
    /\ listeners = [ch \in EventTypes |-> NoThread]
    /\ published = [ch \in EventTypes |-> 0]
    /\ delivered = [ch \in EventTypes |-> <<>>]
    /\ exiting = "no"
    /\ detached = [ch \in EventTypes |-> NoThread]
    /\ monitor = [monitoring |-> FALSE, joining |-> FALSE,
                  thread |-> "none", stale |-> "none"]

DeployIds == {"d1", "d2"}
Names == {"n1", "n2"}
Starters == {"s1"}

PortLo == 8000
Ports == PortLo..(PortLo + PortSpan - 1)
Pids == 1..MaxProcs

\* Model.source of each model key
source_of(m) == IF m = "m1" THEN "huggingface" ELSE "ollama"

\* transition() called from _trigger_state_event on the statuses st
raise_event(st, m, e) ==
    LET o == transition_outcome(st[m], e)
    IN  [status |-> IF o.changed THEN [st EXCEPT ![m] = o.new] ELSE st,
         ev |-> e]

\* no row of that id yet, and the row of that id deleted
NoDeployment == [status |-> "absent"]
Deleted == [status |-> "deleted"]

\* "no port" and "no pid": the values Python treats as false
NoPort == 0
NoPid == 0

\* the order in which fresh ids and unused names are taken
IdBefore(a, b) == a = "d1" /\ b = "d2"
NameBefore(a, b) == a = "n1" /\ b = "n2"

Present(d) == deployments[d].status \notin {"absent", "deleted"}

\* ports with a listening socket (psutil.net_connections, CONN_LISTEN)
listening == {procs[p].port : p \in {q \in Pids : procs[q].state = "serving"}}

check_port_availability(port) == port \notin listening

find_available_port(start_port, end_port) ==
    LET free == {q \in start_port..end_port : check_port_availability(q)}
    IN  IF free = {} THEN NoPort
        ELSE CHOOSE q \in free : \A r \in free : q <= r

\* the port _allocate_port returns, NoPort where create_deployment raises
\* ValidationError (preferred port occupied, or no port free in the range)
allocate_port(preferred_port) ==
    IF preferred_port # NoPort
    THEN IF check_port_availability(preferred_port) THEN preferred_port ELSE NoPort
    ELSE find_available_port(PortLo, PortLo + PortSpan - 1)

\* psutil.Process(pid) exists
alive(pid) == procs[pid].state \in {"starting", "serving"}

check_container_status(container_id) == alive(container_id)

\* requests.get(health_url) answers whoever listens on the port
port_answers(port) == port \in listening

FreePids == {q \in Pids : procs[q].state = "free"}
new_pid == CHOOSE q \in FreePids : \A r \in FreePids : q <= r

NameInUse(name) == \E k \in DeployIds : Present(k) /\ deployments[k].name = name

Op(name, d, ok, err, events) ==
    [op |-> name, id |-> d, err |-> err, events |-> events]

\* d is the fresh uuid4 of the new row: an id is never used twice.  The field
\* beside is no column: it remembers which deployments were created and not
\* yet started when this one was created.
create_deployment(d, m, name, preferred_port) ==
    /\ deployments[d] = NoDeployment
    /\ \A k \in DeployIds : deployments[k] = NoDeployment => ~IdBefore(k, d)
    /\ \A n \in Names : NameBefore(n, name) => NameInUse(n)
    /\ LET port == allocate_port(preferred_port)
           err == IF status[m] = NoRow THEN "not_found"
                  ELSE IF NameInUse(name) THEN "conflict"
                  ELSE IF port = NoPort THEN "validation"
                  ELSE None
       IN  /\ deployments' =
                 IF err # None THEN deployments
                 ELSE [deployments EXCEPT ![d] =
                          [name |-> name, model |-> m, status |-> "pending",
                           port |-> port, container_id |-> NoPid,
                           health_status |-> "unknown",
                           beside |-> {k \in DeployIds : deployments[k].status = "pending"}]]
           /\ lastOp' = Op("create", d, err = None, err, <<>>)
    /\ UNCHANGED <<dlVars, eqVars, smVars, queues, procs, starters>>

\* the thread leaves start_deployment
Left == [pc |-> "idle"]

\* thread s is free to take a call
takes_call(s) == starters[s].pc = "idle"

\* finish_start not recording the process it launched
finish_start_no_handle(s, d, pid, success) ==
    IF ~Present(d)
    THEN /\ lastOp' = Op("start", d, FALSE, "gone", <<>>)
         /\ UNCHANGED <<status, deployments>>
    ELSE LET m == deployments[d].model
             r == raise_event(status, m,
                              IF success THEN "deploy_completed" ELSE "deploy_failed")
         IN  /\ deployments' =
                   [deployments EXCEPT ![d] =
                       IF success
                       THEN [@ EXCEPT !.status = "running"]
                       ELSE [@ EXCEPT !.status = "failed"]]
             /\ status' = r.status
             /\ lastOp' = Op("start", d, success,
                             IF success THEN None ELSE "launch", <<r.ev>>)
                           @@ ("model_was" :> starters[s].model_was)

\* finish_start with a failed launch leaving the row as it is
finish_start_unmarked(s, d, pid, success) ==
    IF ~Present(d)
    THEN /\ lastOp' = Op("start", d, FALSE, "gone", <<>>)
         /\ UNCHANGED <<status, deployments>>
    ELSE LET m == deployments[d].model
             r == raise_event(status, m,
                              IF success THEN "deploy_completed" ELSE "deploy_failed")
         IN  /\ deployments' =
                   [deployments EXCEPT ![d] =
                       IF success
                       THEN [@ EXCEPT !.status = "running", !.container_id = pid]
                       ELSE @]
             /\ status' = r.status
             /\ lastOp' = Op("start", d, success,
                             IF success THEN None ELSE "launch", <<r.ev>>)
                           @@ ("model_was" :> starters[s].model_was)

\* deployment.complete_deployment(...) or fail_deployment(...) and the commit,
\* on the Deployment object the thread loaded when it began.  lastOp keeps,
\* with the result, the model's status when the call began.
finish_start(s, d, pid, success) ==
    IF ~Present(d)
    THEN /\ lastOp' = Op("start", d, FALSE, "gone", <<>>)
         /\ UNCHANGED <<status, deployments>>
    ELSE LET m == deployments[d].model
             r == raise_event(status, m,
                              IF success THEN "deploy_completed" ELSE "deploy_failed")
         IN  /\ deployments' =
                   [deployments EXCEPT ![d] =
                       IF success
                       THEN [@ EXCEPT !.status = "running", !.container_id = pid]
                       ELSE [@ EXCEPT !.status = "failed"]]
             /\ status' = r.status
             /\ lastOp' = Op("start", d, success,
                             IF success THEN None ELSE "launch", <<r.ev>>)
                           @@ ("model_was" :> starters[s].model_was)

\* start_deployment after its status check: start_deployment() on the row,
\* the commit and the Popen of the launcher.  model_was is no variable of the
\* code: it remembers the model's status when the call began.
launch(s, d) ==
         LET m == deployments[d].model
             r == raise_event(status, m, "deploy_started")
             begun == [deployments EXCEPT ![d].status = "deploying"]
         IN  \/ \* the launcher returns an error before any wait (model files
                \* missing, Popen raising): fail_deployment
                LET f == raise_event(r.status, m, "deploy_failed")
                IN  /\ deployments' = [begun EXCEPT ![d].status = "failed"]
                    /\ status' = f.status
                    /\ lastOp' = Op("start", d, FALSE, "launch", <<r.ev, f.ev>>)
                    /\ starters' = [starters EXCEPT ![s] = Left]
                    /\ UNCHANGED procs
             \/ \* the process is spawned and the thread waits for it
                /\ FreePids # {}
                /\ procs' = [procs EXCEPT ![new_pid] =
                                [state |-> "starting", port |-> deployments[d].port]]
                /\ deployments' = begun
                /\ status' = r.status
                /\ lastOp' = Op("start_begin", d, TRUE, None, <<r.ev>>)
                /\ starters' = [starters EXCEPT ![s] =
                                   [pc |-> "waiting", dep |-> d, pid |-> new_pid,
                                    source |-> source_of(m), waited |-> 0,
                                    model_was |-> status[m]]]

\* start_deployment up to the launch: the status check, then the launch
begin_start(s, d) ==
    IF ~Present(d)
    THEN /\ lastOp' = Op("start", d, FALSE, "not_found", <<>>)
         /\ starters' = [starters EXCEPT ![s] = Left]
         /\ UNCHANGED <<status, deployments, procs>>
    ELSE IF deployments[d].status \in {"running", "deploying"}
    THEN /\ lastOp' = Op("start", d, FALSE, "validation", <<>>)
         /\ starters' = [starters EXCEPT ![s] = Left]
         /\ UNCHANGED <<status, deployments, procs>>
    ELSE launch(s, d)

start_deployment(s, d) ==
    /\ takes_call(s)
    /\ begin_start(s, d)
    /\ UNCHANGED <<dlVars, eqVars, backend, rowLock, txn, win, history, logged, queues>>

\* one round of the startup wait of _start_huggingface_deployment: sleep,
\* process.poll(), the health probe; or the single check of
\* _start_ollama_deployment after its sleep
poll_start(s) ==
    /\ starters[s].pc = "waiting"
    /\ LET d == starters[s].dep
           pid == starters[s].pid
           waited == starters[s].waited + 1
           src == starters[s].source
           port == procs[pid].port
       IN  \/ \* the process has exited
              /\ ~alive(pid)
              /\ finish_start(s, d, pid, FALSE)
              /\ starters' = [starters EXCEPT ![s] = Left]
              /\ UNCHANGED procs
           \/ \* ollama: the process is still there after the sleep
              /\ alive(pid)
              /\ src # "huggingface"
              /\ finish_start(s, d, pid, TRUE)
              /\ starters' = [starters EXCEPT ![s] = Left]
              /\ UNCHANGED procs
           \/ \* vLLM: the health URL of host:port answers 200
              /\ alive(pid)
              /\ src = "huggingface"
              /\ port_answers(port)
              /\ finish_start(s, d, pid, TRUE)
              /\ starters' = [starters EXCEPT ![s] = Left]
              /\ UNCHANGED procs
           \/ \* vLLM: no answer yet, wait on
              /\ alive(pid)
              /\ src = "huggingface"
              /\ waited < MaxPolls
              /\ starters' = [starters EXCEPT ![s].waited = waited]
              /\ lastOp' = Op("start_wait", d, TRUE, None, <<>>)
              /\ UNCHANGED <<status, deployments, procs>>
           \/ \* vLLM: no answer within max_wait_time: terminate and fail
              /\ alive(pid)
              /\ src = "huggingface"
              /\ waited >= MaxPolls
              /\ procs' = [procs EXCEPT ![pid].state = "exited"]
              /\ finish_start(s, d, pid, FALSE)
              /\ starters' = [starters EXCEPT ![s] = Left]
    /\ UNCHANGED <<dlVars, eqVars, backend, rowLock, txn, win, history, logged, queues>>

\* _stop_container: kill_process on the recorded pid
stop_container(container_id) ==
    IF container_id # NoPid /\ alive(container_id)
    THEN [procs EXCEPT ![container_id].state = "exited"]
    ELSE procs

stop_deployment(d) ==
    /\ Present(d)
    /\ IF deployments[d].status \notin {"running", "deploying"}
       THEN /\ lastOp' = Op("stop", d, FALSE, "validation", <<>>)
            /\ UNCHANGED <<status, deployments, procs>>
       ELSE LET r == raise_event(status, deployments[d].model, "deploy_stopped")
            IN  /\ procs' = stop_container(deployments[d].container_id)
                /\ deployments' = [deployments EXCEPT ![d].status = "stopped"]
                /\ status' = r.status
                /\ lastOp' = Op("stop", d, TRUE, None, <<r.ev>>)
    /\ UNCHANGED <<dlVars, eqVars, backend, rowLock, txn, win, history, logged, queues, starters>>

\* restart_deployment: stop_deployment, then the settle sleep
restart_deployment(s, d) ==
    /\ takes_call(s)
    /\ Present(d)
    /\ IF deployments[d].status \notin {"running", "deploying"}
       THEN /\ lastOp' = Op("restart", d, FALSE, "validation", <<>>)
            /\ UNCHANGED <<status, deployments, procs, starters>>
       ELSE LET r == raise_event(status, deployments[d].model, "deploy_stopped")
            IN  /\ procs' = stop_container(deployments[d].container_id)
                /\ deployments' = [deployments EXCEPT ![d].status = "stopped"]
                /\ status' = r.status
                /\ lastOp' = Op("restart_stop", d, TRUE, None, <<r.ev>>)
                /\ starters' = [starters EXCEPT ![s] = [pc |-> "settle", dep |-> d]]
    /\ UNCHANGED <<dlVars, eqVars, backend, rowLock, txn, win, history, logged, queues>>

\* restart_deployment after the sleep: start_deployment
restart_start(s) ==
    /\ starters[s].pc = "settle"
    /\ begin_start(s, starters[s].dep)
    /\ UNCHANGED <<dlVars, eqVars, backend, rowLock, txn, win, history, logged, queues>>

delete_deployment(d) ==
    /\ Present(d)
    /\ IF deployments[d].status \in {"running", "deploying"}
       THEN LET r == raise_event(status, deployments[d].model, "deploy_stopped")
            IN  /\ procs' = stop_container(deployments[d].container_id)
                /\ status' = r.status
                /\ lastOp' = Op("delete", d, TRUE, None, <<r.ev>>)
       ELSE /\ lastOp' = Op("delete", d, TRUE, None, <<>>)
            /\ UNCHANGED <<status, procs>>
    /\ deployments' = [deployments EXCEPT ![d] = Deleted]
    /\ UNCHANGED <<dlVars, eqVars, backend, rowLock, txn, win, history, logged, queues, starters>>

get_deployment_status(d) ==
    /\ Present(d)
    /\ deployments' =
          IF /\ deployments[d].status = "running"
             /\ deployments[d].container_id # NoPid
             /\ ~check_container_status(deployments[d].container_id)
          THEN [deployments EXCEPT ![d].status = "stopped"]
          ELSE deployments
    /\ lastOp' = Op("get_status", d, TRUE, None, <<>>)
    /\ UNCHANGED <<dlVars, eqVars, smVars, queues, procs, starters>>

\* update_health_status raising the event on every unhealthy result
update_health_status_level(dep, st, new_health) ==
    IF new_health = "unhealthy"
    THEN LET r == raise_event(st, dep.model, "health_check_failed")
         IN  [dep |-> [dep EXCEPT !.health_status = new_health],
              status |-> r.status, events |-> <<r.ev>>]
    ELSE [dep |-> [dep EXCEPT !.health_status = new_health],
          status |-> st, events |-> <<>>]

\* Deployment.update_health_status: the new record and the events raised
update_health_status(dep, st, new_health) ==
    IF new_health = "unhealthy" /\ dep.health_status # "unhealthy"
    THEN LET r == raise_event(st, dep.model, "health_check_failed")
         IN  [dep |-> [dep EXCEPT !.health_status = new_health],
              status |-> r.status, events |-> <<r.ev>>]
    ELSE [dep |-> [dep EXCEPT !.health_status = new_health],
          status |-> st, events |-> <<>>]

HealthResults == {"healthy", "unhealthy", "error"}

\* a health check that marks the deployment stopped on every unhealthy result
check_deployment_health_stops(d, probe) ==
    /\ Present(d)
    /\ LET dep == deployments[d]
           dead == dep.container_id # NoPid /\ ~check_container_status(dep.container_id)
           new_health == IF dep.status # "running" \/ dead THEN "unhealthy" ELSE probe
           u == update_health_status(dep, status, new_health)
       IN  /\ (dep.status = "running" /\ ~dead /\ probe = "healthy")
              => port_answers(dep.port)
           /\ (dep.status # "running" \/ dead) => probe = "unhealthy"
           /\ deployments' =
                 [deployments EXCEPT ![d] =
                     IF dep.status = "running" /\ new_health = "unhealthy"
                     THEN [u.dep EXCEPT !.status = "stopped"]
                     ELSE u.dep]
           /\ status' = u.status
           /\ lastOp' = Op("check_health", d, TRUE, None, u.events)
                         @@ ("probe" :> IF dep.status # "running" \/ dead
                                        THEN "skipped" ELSE probe)
    /\ UNCHANGED <<dlVars, eqVars, backend, rowLock, txn, win, history, logged, queues, procs, starters>>

\* check_deployment_health; probe is what the health request came to:
\* "healthy" needs a listener on the port, "error" is an exception that is
\* no RequestException.  The probe field of lastOp is no variable of the
\* code: it records whether the request was made and what it came to
check_deployment_health(d, probe) ==
    /\ Present(d)
    /\ LET dep == deployments[d]
           dead == dep.container_id # NoPid /\ ~check_container_status(dep.container_id)
           new_health == IF dep.status # "running" \/ dead THEN "unhealthy" ELSE probe
           u == update_health_status(dep, status, new_health)
       IN  /\ (dep.status = "running" /\ ~dead /\ probe = "healthy")
              => port_answers(dep.port)
           /\ (dep.status # "running" \/ dead) => probe = "unhealthy"
           /\ deployments' =
                 [deployments EXCEPT ![d] =
                     IF dep.status = "running" /\ dead
                     THEN [u.dep EXCEPT !.status = "stopped"]
                     ELSE u.dep]
           /\ status' = u.status
           /\ lastOp' = Op("check_health", d, TRUE, None, u.events)
                         @@ ("probe" :> IF dep.status # "running" \/ dead
                                        THEN "skipped" ELSE probe)
    /\ UNCHANGED <<dlVars, eqVars, backend, rowLock, txn, win, history, logged, queues, procs, starters>>

\* the launched server binds its port, or exits when the port is taken
proc_bind(pid) ==
    /\ procs[pid].state = "starting"
    /\ procs' = [procs EXCEPT ![pid].state =
                    IF procs[pid].port \in listening THEN "exited" ELSE "serving"]
    /\ lastOp' = NoOp
    /\ UNCHANGED <<dlVars, eqVars, smVars, queues, deployments, starters>>

\* a launched process exits on its own
proc_exit(pid) ==
    /\ alive(pid)
    /\ procs' = [procs EXCEPT ![pid].state = "exited"]
    /\ lastOp' = NoOp
    /\ UNCHANGED <<dlVars, eqVars, smVars, queues, deployments, starters>>

InitDeployVars ==
    /\ deployments = [d \in DeployIds |-> NoDeployment]
    /\ procs = [q \in Pids |-> [state |-> "free", port |-> PortLo]]
    /\ starters = [s \in Starters |-> Left]

InitDeploy ==
    /\ backend = "sqlite"
    /\ status \in {[m1 |-> "active", m2 |-> NoRow], [m1 |-> NoRow, m2 |-> "active"]}
    /\ rowLock = [m \in ModelKeys |-> None]
    /\ txn = [c \in Callers |-> Idle]
    /\ win = [base |-> status, calls |-> <<>>]
    /\ history = <<>>
    /\ logged = 0
    /\ queues = [ch \in EventTypes |-> <<>>]
    /\ InitDeployVars
    /\ InitEQVars
    /\ InitDLVars
    /\ lastOp = NoOp

NextDeploy ==
    \/ \E d \in DeployIds, m \in ModelKeys, n \in Names, pp \in Ports \cup {NoPort} :
          create_deployment(d, m, n, pp)
    \/ \E s \in Starters, d \in DeployIds : start_deployment(s, d)
    \/ \E s \in Starters : poll_start(s)
    \/ \E d \in DeployIds : stop_deployment(d)
    \/ \E s \in Starters, d \in DeployIds : restart_deployment(s, d)
    \/ \E s \in Starters : restart_start(s)
    \/ \E d \in DeployIds : delete_deployment(d)
    \/ \E d \in DeployIds : get_deployment_status(d)
    \/ \E d \in DeployIds, h \in HealthResults : check_deployment_health(d, h)
    \/ \E q \in Pids : proc_bind(q)
    \/ \E q \in Pids : proc_exit(q)

SpecDeploy == InitDeploy /\ [][NextDeploy]_vars

(***************************************************************************)
(* A manager call whose transition() meets a storage error.  The query or  *)
(* the commit inside _atomic_transaction raises, _atomic_transaction calls *)
(* db.session.rollback() and transition returns (False, ...).  db.session  *)
(* is the session the manager's row object lives in, and the manager       *)
(* assigned the row's status before it raised the event: the rollback      *)
(* discards that assignment, and the commit the manager runs afterwards    *)
(* has nothing left to write.                                              *)
(***************************************************************************)
\* stop_deployment with a storage error inside the transition it raises
stop_deployment_rolled_back(d) ==
    /\ Present(d)
    /\ deployments[d].status \in {"running", "deploying"}
    /\ procs' = stop_container(deployments[d].container_id)
    /\ lastOp' = Op("stop", d, TRUE, None, <<"deploy_stopped">>)
                    @@ ("transition" :> "storage_error")
    /\ UNCHANGED <<status, deployments>>
    /\ UNCHANGED <<dlVars, eqVars, backend, rowLock, txn, win, history, logged, queues, starters>>

NextDeployStorage ==
    \/ \E d \in DeployIds, m \in ModelKeys, n \in Names :
          create_deployment(d, m, n, NoPort)
    \/ \E s \in Starters, d \in DeployIds : start_deployment(s, d)
    \/ \E s \in Starters : poll_start(s)
    \/ \E d \in DeployIds : stop_deployment(d)
    \/ \E d \in DeployIds : stop_deployment_rolled_back(d)
    \/ \E q \in Pids : proc_bind(q)
    \/ \E q \in Pids : proc_exit(q)

SpecDeployStorage == InitDeploy /\ [][NextDeployStorage]_vars

(***************************************************************************)
(* start_deployment beside other callers of the state machine.  The        *)
(* transaction of the deploy_started transition takes the model's row lock *)
(* at its SELECT ... FOR UPDATE and gives it up at the commit of           *)
(* _atomic_transaction (line 107), before the launcher is entered: the     *)
(* start step waits for a free lock and leaves rowLock as it found it.     *)
(***************************************************************************)
\* a transition whose transaction stayed open would keep the row lock
lock_kept(m, s) ==
    IF backend = "sqlite" \/ status[m] = NoRow THEN rowLock
    ELSE [rowLock EXCEPT ![m] = s]

\* the row locks after the transition a manager thread raised has committed
lock_after_commit(m, s) == rowLock

\* start_deployment with the row lock of its transition
start_deployment_txn(s, d) ==
    /\ takes_call(s)
    /\ Present(d) => lock_free(deployments[d].model)
    /\ begin_start(s, d)
    /\ rowLock' = IF Present(d) /\ starters'[s].pc = "waiting"
                  THEN lock_after_commit(deployments[d].model, s)
                  ELSE rowLock
    /\ UNCHANGED <<dlVars, eqVars, backend, txn, win, history, logged, queues>>

\* a round of the startup wait; the round that ends the wait raises an event
\* and has to find the row lock free
poll_start_txn(s) ==
    /\ starters[s].pc = "waiting"
    /\ Present(starters[s].dep) => lock_free(deployments[starters[s].dep].model)
    /\ poll_start(s)

\* on the backend that has row locks
InitDeploySM ==
    /\ backend = "postgresql"
    /\ status = [m \in ModelKeys |-> "inactive"]
    /\ rowLock = [m \in ModelKeys |-> None]
    /\ txn = [c \in Callers |-> Idle]
    /\ win = [base |-> status, calls |-> <<>>]
    /\ history = <<>>
    /\ logged = 0
    /\ queues = [ch \in EventTypes |-> <<>>]
    /\ InitDeployVars
    /\ InitEQVars
    /\ InitDLVars
    /\ lastOp = NoOp

NextDeploySM ==
    \/ \E m \in ModelKeys : create_deployment("d1", m, "n1", NoPort)
    \/ \E s \in Starters : start_deployment_txn(s, "d1")
    \/ \E s \in Starters : poll_start_txn(s)
    \/ \E m \in ModelKeys, e \in ModelEvent : BeginCall("c1", m, "transition", e)
    \/ FinishCall("c1")
    \/ \E q \in Pids : proc_bind(q)
    \/ \E q \in Pids : proc_exit(q)

SpecDeploySM == InitDeploySM /\ [][NextDeploySM]_vars

(***************************************************************************)
(* The deployment manager serving two start requests at a time: the server *)
(* runs each request on a thread of its own.  The threads are              *)
(* interchangeable, so the second one takes a call only while the first is *)
(* inside one.                                                             *)
(***************************************************************************)
Threads == {"s1", "s2"}

InitDeployPar ==
    /\ backend = "sqlite"
    /\ status \in {[m1 |-> "inactive", m2 |-> NoRow], [m1 |-> NoRow, m2 |-> "inactive"]}
    /\ rowLock = [m \in ModelKeys |-> None]
    /\ txn = [c \in Callers |-> Idle]
    /\ win = [base |-> status, calls |-> <<>>]
    /\ history = <<>>
    /\ logged = 0
    /\ queues = [ch \in EventTypes |-> <<>>]
    /\ deployments = [d \in DeployIds |-> NoDeployment]
    /\ procs = [q \in Pids |-> [state |-> "free", port |-> PortLo]]
    /\ starters = [s \in Threads |-> Left]
    /\ InitEQVars
    /\ InitDLVars
    /\ lastOp = NoOp

NextDeployPar ==
    \/ \E d \in DeployIds, m \in ModelKeys, n \in Names :
          create_deployment(d, m, n, NoPort)
    \/ \E s \in Threads, d \in DeployIds :
          /\ s = "s2" => ~takes_call("s1")
          /\ start_deployment(s, d)
    \/ \E s \in Threads : poll_start(s)
    \/ \E d \in DeployIds : stop_deployment(d)
    \/ \E s \in Threads, d \in DeployIds :
          /\ s = "s2" => ~takes_call("s1")
          /\ restart_deployment(s, d)
    \/ \E s \in Threads : restart_start(s)
    \/ \E d \in DeployIds : delete_deployment(d)
    \/ \E q \in Pids : proc_bind(q)
    \/ \E q \in Pids : proc_exit(q)

SpecDeployPar == InitDeployPar /\ [][NextDeployPar]_vars


\* the model keys the callers of SpecSM work on
SMKeys == {"m1"}

InitSMVars ==
    /\ backend \in Backends
    /\ status \in [ModelKeys -> StoredStatus \cup {NoRow}]
    /\ \A m \in ModelKeys \ SMKeys : status[m] = "active"
    /\ rowLock = [m \in ModelKeys |-> None]
    /\ txn = [c \in Callers |-> Idle]
    /\ win = [base |-> status, calls |-> <<>>]
    /\ history = <<>>
    /\ logged = 0

InitQueues == queues = [ch \in EventTypes |-> <<>>]

InitSM ==
    /\ InitSMVars /\ InitQueues /\ InitDeployVars /\ InitEQVars /\ InitDLVars
    /\ lastOp = NoOp

NextSM ==
    \/ \E c \in Callers, m \in SMKeys, e \in ModelEvent :
          BeginCall(c, m, "transition", e)
    \/ \E c \in Callers, m \in SMKeys, s \in ModelState :
          BeginCall(c, m, "force", s)
    \/ \E c \in Callers : FinishCall(c)

SpecSM == InitSM /\ [][NextSM]_vars

\* transition calls in which _record_state_change or push_model_status may
\* raise
NextSMRaising ==
    \/ \E c \in Callers, m \in SMKeys, e \in ModelEvent :
          BeginCall(c, m, "transition", e)
    \/ \E c \in Callers, recorded, notified \in BOOLEAN :
          finish_call(c, recorded, notified)

SpecSMRaising == InitSM /\ [][NextSMRaising]_vars

\* transition and force_state with a commit that may raise.  The status is
\* assigned, recorded and notified inside the with block (lines 150-162 and
\* 276-288); db.session.commit() runs when the block is left (line 107).  A
\* commit that raises is rolled back (109), the exception is caught by the
\* call (169-174, 294-296) and the call returns applied False: the row keeps
\* the status it had, the record and the event were already made.  A call
\* that wrote nothing has nothing to commit.
finish_call_commit(c, committed) ==
    /\ txn[c].pc = "read"
    /\ LET t == txn[c]
           o == call_outcome(t.kind, t.cur, t.arg)
       IN  /\ o.changed => Len(queues["model_status"]) < MaxQueue
           /\ ~o.changed => committed
           /\ status' = IF o.changed /\ committed
                        THEN [status EXCEPT ![t.model] = o.new]
                        ELSE status
           /\ queues' = IF o.changed
                        THEN [queues EXCEPT !["model_status"] =
                                 Append(@, status_event(t.model, o.new))]
                        ELSE queues
           /\ history' = IF o.changed
                         THEN Append(history,
                                     record_state_change(t.model, o.new, t.kind))
                         ELSE history
           /\ win' = [win EXCEPT !.calls =
                         Append(@, [caller |-> c, model |-> t.model,
                                    kind |-> t.kind, arg |-> t.arg,
                                    cur |-> t.cur,
                                    applied |-> IF committed THEN o.applied ELSE FALSE,
                                    err |-> IF committed THEN o.err ELSE "failed",
                                    valid |-> o.valid])]
    /\ rowLock' = [m \in ModelKeys |-> IF rowLock[m] = c THEN None ELSE rowLock[m]]
    /\ txn' = [txn EXCEPT ![c] = Idle]
    /\ UNCHANGED <<backend, logged, dpVars, lastOp, eqVars, dlVars>>

\* one caller at a time: a commit needs no second call to fail
NextSMCommit ==
    \/ \E m \in SMKeys, e \in ModelEvent : BeginCall("c1", m, "transition", e)
    \/ \E m \in SMKeys, s \in ModelState : BeginCall("c1", m, "force", s)
    \/ \E committed \in BOOLEAN : finish_call_commit("c1", committed)

SpecSMCommit == InitSM /\ [][NextSMCommit]_vars


(***************************************************************************)
(* The transition table as the specification gives it (section 4.1).       *)
(***************************************************************************)
(* DownloadService and the download_model_task workers.                    *)
(*                                                                         *)
(* A task's file_path is the path _resolve_download_path derives from the  *)
(* model ("dir"), or the ollama:// name a finished pull stores ("ollama"), *)
(* which names nothing on disk.  Sizes are in units of which a model has   *)
(* MaxBytes.                                                               *)
(***************************************************************************)
TaskPresent(t) == tasks[t].status \notin {"absent", "deleted"}

\* the order in which fresh task ids are taken
TaskBefore(a, b) == a = "t1" /\ b = "t2"

\* DownloadTask.get_by_model: .first() of a query with no ORDER BY, any of
\* the model's tasks; None stands for no row
get_by_model(m) ==
    LET rows == {t \in TaskIds : TaskPresent(t) /\ tasks[t].model = m}
    IN  IF rows = {} THEN {None} ELSE rows

\* os.path.exists(task.file_path) on the files fs
path_exists(fs, task) == task.file_path = "dir" /\ fs[task.model]

\* the files left after os.remove / shutil.rmtree of task.file_path
remove_path(fs, task) ==
    IF path_exists(fs, task) THEN [fs EXCEPT ![task.model] = FALSE] ELSE fs

FreeWorkers == {w \in WorkerIds : workers[w].pc = "free"}

\* download_model_task.delay(task_id): the submission is queued, or fails
\* and is only logged
submit(t) ==
    \/ /\ FreeWorkers # {}
       /\ LET w == CHOOSE w \in FreeWorkers : \A v \in FreeWorkers : w <= v
          IN  workers' = [workers EXCEPT ![w] =
                             [pc |-> "queued", task |-> t, downloaded |-> 0]]
    \/ UNCHANGED workers

create_download_task(t, m) ==
    /\ tasks[t] = NoTask
    /\ \A k \in TaskIds : tasks[k] = NoTask => ~TaskBefore(k, t)
    /\ \E existing \in get_by_model(m) :
          IF existing # None /\ tasks[existing].status \in {"pending", "downloading"}
          THEN /\ lastOp' = Op("create_task", t, FALSE, "validation", <<>>)
               /\ UNCHANGED tasks
          ELSE /\ tasks' = [tasks EXCEPT ![t] =
                               [model |-> m, status |-> "pending", progress |-> 0,
                                download_size |-> 0, total_size |-> 0,
                                file_path |-> "dir", size_by |-> "default"]]
               /\ lastOp' = Op("create_task", t, TRUE, None, <<>>)
    /\ UNCHANGED <<smVars, queues, dpVars, eqVars, files, workers>>

start_download(t) ==
    /\ TaskPresent(t)
    /\ IF tasks[t].status \notin {"pending", "paused"}
       THEN /\ lastOp' = Op("start_task", t, FALSE, "validation", <<>>)
            /\ UNCHANGED <<status, tasks, workers>>
       ELSE LET r == raise_event(status, tasks[t].model, "download_started")
            IN  /\ tasks' = [tasks EXCEPT ![t].status = "downloading"]
                /\ status' = r.status
                /\ submit(t)
                /\ lastOp' = Op("start_task", t, TRUE, None, <<r.ev>>)
    /\ UNCHANGED <<backend, rowLock, txn, win, history, logged, queues, dpVars, eqVars, files>>

\* pause_download telling the state machine that the download has stopped
pause_download_with_event(t) ==
    /\ TaskPresent(t)
    /\ IF tasks[t].status # "downloading"
       THEN /\ lastOp' = Op("pause", t, FALSE, "validation", <<>>)
            /\ UNCHANGED <<status, tasks>>
       ELSE LET r == raise_event(status, tasks[t].model, "download_cancelled")
            IN  /\ tasks' = [tasks EXCEPT ![t].status = "paused"]
                /\ status' = r.status
                /\ lastOp' = Op("pause", t, TRUE, None, <<r.ev>>)
    /\ UNCHANGED <<backend, rowLock, txn, win, history, logged, queues, dpVars, eqVars, files,
                   workers>>

\* DownloadTask.pause_download raises no event
pause_download(t) ==
    /\ TaskPresent(t)
    /\ IF tasks[t].status # "downloading"
       THEN /\ lastOp' = Op("pause", t, FALSE, "validation", <<>>)
            /\ UNCHANGED tasks
       ELSE /\ tasks' = [tasks EXCEPT ![t].status = "paused"]
            /\ lastOp' = Op("pause", t, TRUE, None, <<>>)
    /\ UNCHANGED <<smVars, queues, dpVars, eqVars, files, workers>>

\* resume_download accepting paused tasks only
resume_download_paused_only(t) ==
    /\ TaskPresent(t)
    /\ IF tasks[t].status # "paused"
       THEN /\ lastOp' = Op("resume", t, FALSE, "validation", <<>>)
            /\ UNCHANGED <<status, tasks, workers>>
       ELSE LET r == raise_event(status, tasks[t].model, "download_started")
            IN  /\ tasks' = [tasks EXCEPT ![t].status = "downloading"]
                /\ status' = r.status
                /\ submit(t)
                /\ lastOp' = Op("resume", t, TRUE, None, <<r.ev>>)
                              @@ ("task_was" :> tasks[t].status)
    /\ UNCHANGED <<backend, rowLock, txn, win, history, logged, queues, dpVars, eqVars, files>>

\* lastOp keeps, with the result of a resume that was accepted, the status
\* the task had
resume_download(t) ==
    /\ TaskPresent(t)
    /\ IF tasks[t].status \notin {"paused", "failed"}
       THEN /\ lastOp' = Op("resume", t, FALSE, "validation", <<>>)
            /\ UNCHANGED <<status, tasks, workers>>
       ELSE LET r == raise_event(status, tasks[t].model, "download_started")
            IN  /\ tasks' = [tasks EXCEPT ![t].status = "downloading"]
                /\ status' = r.status
                /\ submit(t)
                /\ lastOp' = Op("resume", t, TRUE, None, <<r.ev>>)
                              @@ ("task_was" :> tasks[t].status)
    /\ UNCHANGED <<backend, rowLock, txn, win, history, logged, queues, dpVars, eqVars, files>>

\* the statuses cancel_download accepts, were it to refuse only cancelled
cancellable_but_cancelled(task_status) == task_status # "cancelled"

\* the statuses cancel_download accepts
cancellable(task_status) == task_status \notin {"completed", "cancelled"}

cancel_download(t) ==
    /\ TaskPresent(t)
    /\ IF ~cancellable(tasks[t].status)
       THEN /\ lastOp' = Op("cancel", t, FALSE, "validation", <<>>)
            /\ UNCHANGED <<status, tasks, files>>
       ELSE LET r == raise_event(status, tasks[t].model, "download_cancelled")
            IN  /\ tasks' = [tasks EXCEPT ![t].status = "cancelled"]
                /\ status' = r.status
                /\ files' = remove_path(files, tasks[t])
                /\ lastOp' = Op("cancel", t, TRUE, None, <<r.ev>>)
    /\ UNCHANGED <<backend, rowLock, txn, win, history, logged, queues, dpVars, eqVars, workers>>

delete_download(t) ==
    /\ TaskPresent(t)
    /\ IF tasks[t].status \in {"pending", "downloading"}
       THEN LET r == raise_event(status, tasks[t].model, "download_cancelled")
            IN  /\ status' = r.status
                /\ lastOp' = Op("delete_task", t, TRUE, None, <<r.ev>>)
       ELSE /\ lastOp' = Op("delete_task", t, TRUE, None, <<>>)
            /\ UNCHANGED status
    /\ files' = remove_path(files, tasks[t])
    /\ tasks' = [tasks EXCEPT ![t] = DeletedTask]
    /\ UNCHANGED <<backend, rowLock, txn, win, history, logged, queues, dpVars, eqVars, workers>>

Finished == [pc |-> "done"]

\* download_model_task up to the transfer: the task is loaded and its status
\* checked; the huggingface path stores total_size and makes the directory
worker_begin(w) ==
    /\ workers[w].pc = "queued"
    /\ LET t == workers[w].task
       IN  IF ~TaskPresent(t) \/ tasks[t].status \notin {"downloading", "pending"}
           THEN /\ workers' = [workers EXCEPT ![w] = Finished]
                /\ lastOp' = Op("worker_skip", t, TRUE, None, <<>>)
                /\ UNCHANGED <<tasks, files>>
           ELSE /\ workers' = [workers EXCEPT ![w].pc = "running"]
                /\ lastOp' = Op("worker_begin", t, TRUE, None, <<>>)
                /\ IF source_of(tasks[t].model) = "huggingface"
                   THEN /\ tasks' = [tasks EXCEPT ![t].total_size = MaxBytes]
                        /\ files' = [files EXCEPT ![tasks[t].model] = TRUE]
                   ELSE UNCHANGED <<tasks, files>>
    /\ UNCHANGED <<smVars, queues, dpVars, eqVars>>

\* the transfer returns: complete_download, file_path and download_size
worker_complete(w) ==
    /\ workers[w].pc = "running"
    /\ workers' = [workers EXCEPT ![w] = Finished]
    /\ LET t == workers[w].task
       IN  IF ~TaskPresent(t)
           THEN /\ lastOp' = Op("worker_complete", t, FALSE, "gone", <<>>)
                /\ UNCHANGED <<status, tasks, files>>
           ELSE LET m == tasks[t].model
                    r == raise_event(status, m, "download_completed")
                IN  /\ status' = r.status
                    /\ lastOp' = Op("worker_complete", t, TRUE, None, <<r.ev>>)
                    /\ IF source_of(m) = "huggingface"
                       THEN /\ tasks' = [tasks EXCEPT ![t] =
                                   [@ EXCEPT !.status = "completed", !.progress = 100,
                                             !.file_path = "dir",
                                             !.download_size = MaxBytes,
                                             !.size_by = "complete"]]
                            /\ files' = [files EXCEPT ![m] = TRUE]
                       ELSE /\ tasks' = [tasks EXCEPT ![t] =
                                   [@ EXCEPT !.status = "completed", !.progress = 100,
                                             !.file_path = "ollama"]]
                            /\ UNCHANGED files
    /\ UNCHANGED <<backend, rowLock, txn, win, history, logged, queues, dpVars, eqVars>>

\* the transfer raises: fail_download in _download_huggingface_model_with_snapshot
\* and again in download_model_task, or once for an ollama pull
worker_fail(w) ==
    /\ workers[w].pc = "running"
    /\ workers' = [workers EXCEPT ![w] = Finished]
    /\ LET t == workers[w].task
       IN  IF ~TaskPresent(t)
           THEN /\ lastOp' = Op("worker_fail", t, FALSE, "gone", <<>>)
                /\ UNCHANGED <<status, tasks>>
           ELSE LET m == tasks[t].model
                    r1 == raise_event(status, m, "download_failed")
                    r2 == raise_event(r1.status, m, "download_failed")
                IN  /\ tasks' = [tasks EXCEPT ![t].status = "failed"]
                    /\ IF source_of(m) = "huggingface"
                       THEN /\ status' = r2.status
                            /\ lastOp' = Op("worker_fail", t, FALSE, "transfer",
                                            <<r1.ev, r2.ev>>)
                       ELSE /\ status' = r1.status
                            /\ lastOp' = Op("worker_fail", t, FALSE, "transfer",
                                            <<r1.ev>>)
    /\ UNCHANGED <<backend, rowLock, txn, win, history, logged, queues, dpVars, eqVars, files>>

InitDL ==
    /\ backend = "sqlite"
    /\ status \in {[m1 |-> "inactive", m2 |-> NoRow], [m1 |-> NoRow, m2 |-> "inactive"]}
    /\ rowLock = [m \in ModelKeys |-> None]
    /\ txn = [c \in Callers |-> Idle]
    /\ win = [base |-> status, calls |-> <<>>]
    /\ history = <<>>
    /\ logged = 0
    /\ queues = [ch \in EventTypes |-> <<>>]
    /\ InitDeployVars
    /\ InitEQVars
    /\ InitDLVars
    /\ lastOp = NoOp

NextDL ==
    \/ \E t \in TaskIds, m \in ModelKeys : create_download_task(t, m)
    \/ \E t \in TaskIds : start_download(t)
    \/ \E t \in TaskIds : pause_download(t)
    \/ \E t \in TaskIds : resume_download(t)
    \/ \E t \in TaskIds : cancel_download(t)
    \/ \E t \in TaskIds : delete_download(t)
    \/ \E w \in WorkerIds : worker_begin(w)
    \/ \E w \in WorkerIds : worker_complete(w)
    \/ \E w \in WorkerIds : worker_fail(w)

SpecDL == InitDL /\ [][NextDL]_vars

(***************************************************************************)
(* create_deployment served on two threads at a time.  The call is two     *)
(* steps here, as the session runs it: the queries (model, name, port) and *)
(* later the INSERT with its commit.  Nothing is locked in between and the *)
(* name column carries no unique constraint.  starters holds the call a    *)
(* thread is inside.                                                       *)
(***************************************************************************)
\* create_deployment up to the allocation of the port
create_check(s, m, name, preferred_port) ==
    /\ takes_call(s)
    /\ LET port == allocate_port(preferred_port)
           err == IF status[m] = NoRow THEN "not_found"
                  ELSE IF NameInUse(name) THEN "conflict"
                  ELSE IF port = NoPort THEN "validation"
                  ELSE None
       IN  IF err # None
           THEN /\ lastOp' = Op("create", None, FALSE, err, <<>>)
                /\ UNCHANGED starters
           ELSE /\ starters' = [starters EXCEPT ![s] =
                                   [pc |-> "creating", model |-> m, name |-> name,
                                    port |-> port]]
                /\ lastOp' = Op("create_check", None, TRUE, None, <<>>)
    /\ UNCHANGED <<dlVars, eqVars, smVars, queues, procs, deployments>>

\* db.session.add(deployment) and the commit, under the fresh uuid4 d
create_insert(s, d) ==
    /\ starters[s].pc = "creating"
    /\ deployments[d] = NoDeployment
    /\ \A k \in DeployIds : deployments[k] = NoDeployment => ~IdBefore(k, d)
    /\ deployments' = [deployments EXCEPT ![d] =
                          [name |-> starters[s].name, model |-> starters[s].model,
                           status |-> "pending", port |-> starters[s].port,
                           container_id |-> NoPid, health_status |-> "unknown",
                           beside |-> {k \in DeployIds :
                                         deployments[k].status = "pending"}]]
    /\ starters' = [starters EXCEPT ![s] = Left]
    /\ lastOp' = Op("create", d, TRUE, None, <<>>)
    /\ UNCHANGED <<dlVars, eqVars, smVars, queues, procs>>

NextDeployCreate ==
    \/ \E s \in Threads, m \in ModelKeys, n \in Names, pp \in Ports \cup {NoPort} :
          /\ s = "s2" => ~takes_call("s1")
          /\ create_check(s, m, n, pp)
    \/ \E s \in Threads, d \in DeployIds : create_insert(s, d)
    \/ \E d \in DeployIds : delete_deployment(d)

SpecDeployCreate == InitDeployPar /\ [][NextDeployCreate]_vars

(***************************************************************************)
(* start_deployment on request threads, its status check and its launch    *)
(* as the two steps they are: the row is read and checked at lines 84-88,  *)
(* written and committed at 92-93, and nothing is locked in between        *)
(***************************************************************************)
\* start_deployment up to its status check
start_check(s, d) ==
    /\ takes_call(s)
    /\ IF ~Present(d)
       THEN /\ lastOp' = Op("start", d, FALSE, "not_found", <<>>)
            /\ UNCHANGED starters
       ELSE IF deployments[d].status \in {"running", "deploying"}
       THEN /\ lastOp' = Op("start", d, FALSE, "validation", <<>>)
            /\ UNCHANGED starters
       ELSE /\ starters' = [starters EXCEPT ![s] = [pc |-> "starting", dep |-> d]]
            /\ lastOp' = Op("start_check", d, TRUE, None, <<>>)
    /\ UNCHANGED <<dlVars, eqVars, smVars, queues, procs, deployments>>

\* start_deployment from deployment.start_deployment() on
start_launch(s) ==
    /\ starters[s].pc = "starting"
    /\ launch(s, starters[s].dep)
    /\ UNCHANGED <<dlVars, eqVars, backend, rowLock, txn, win, history, logged, queues>>

NextDeployStart ==
    \/ \E d \in DeployIds, m \in ModelKeys, n \in Names :
          create_deployment(d, m, n, NoPort)
    \/ \E s \in Threads, d \in DeployIds :
          /\ s = "s2" => ~takes_call("s1")
          /\ start_check(s, d)
    \/ \E s \in Threads : start_launch(s)
    \/ \E s \in Threads : poll_start(s)
    \/ \E d \in DeployIds : stop_deployment(d)
    \/ \E q \in Pids : proc_bind(q)
    \/ \E q \in Pids : proc_exit(q)

SpecDeployStart == InitDeployPar /\ [][NextDeployStart]_vars

(***************************************************************************)
(* The maintenance tasks of tasks/download_tasks.py.  Both are registered  *)
(* with Celery beside download_model_task and run in the worker when they  *)
(* are sent; the repository configures no schedule that sends them.        *)
(***************************************************************************)
FailedTasks == {t \in TaskIds : TaskPresent(t) /\ tasks[t].status = "failed"}

\* download_model_task.delay for each task of the set ts, in id order, on the
\* worker records ws
RECURSIVE submit_all(_, _)
submit_all(ts, ws) ==
    IF ts = {} THEN ws
    ELSE LET t == CHOOSE k \in ts : \A j \in ts : ~TaskBefore(j, k)
             free == {w \in WorkerIds : ws[w].pc = "free"}
             w == CHOOSE v \in free : \A u \in free : v <= u
         IN  submit_all(ts \ {t},
                        [ws EXCEPT ![w] = [pc |-> "queued", task |-> t,
                                           downloaded |-> 0]])

\* retry_failed_downloads: every failed task is set to pending, with no
\* state-machine event, and its transfer submitted again
retry_failed_downloads ==
    /\ Cardinality(FreeWorkers) >= Cardinality(FailedTasks)
    /\ tasks' = [t \in TaskIds |->
                   IF t \in FailedTasks THEN [tasks[t] EXCEPT !.status = "pending"]
                   ELSE tasks[t]]
    /\ workers' = submit_all(FailedTasks, workers)
    /\ lastOp' = Op("retry_failed", None, TRUE, None, <<>>)
    /\ UNCHANGED <<smVars, queues, dpVars, eqVars, files>>

\* the files left after the paths of the tasks ts are removed
RECURSIVE remove_paths(_, _)
remove_paths(fs, ts) ==
    IF ts = {} THEN fs
    ELSE LET t == CHOOSE k \in ts : TRUE
         IN  remove_paths(remove_path(fs, tasks[t]), ts \ {t})

\* cleanup_failed_downloads: the files of every failed task are removed
cleanup_failed_downloads ==
    /\ files' = remove_paths(files, FailedTasks)
    /\ lastOp' = Op("cleanup_failed", None, TRUE, None, <<>>)
    /\ UNCHANGED <<smVars, queues, dpVars, eqVars, tasks, workers>>

NextDLMaintenance ==
    \/ NextDL
    \/ retry_failed_downloads
    \/ cleanup_failed_downloads

SpecDLMaintenance == InitDL /\ [][NextDLMaintenance]_vars

(***************************************************************************)
(* The progress reports of a huggingface transfer.  ProgressTracker adds   *)
(* up what its own worker has transferred and hands the sum to             *)
(* progress_callback.  download_model_with_snapshot builds the tracker but *)
(* does not hand it to snapshot_download, so SpecDL has no such step;      *)
(* SpecDLProgress adds it, as the step the tracker is written for.         *)
(***************************************************************************)
\* DownloadTask.update_progress; progress is kept to whole percents
update_progress(task, downloaded_size, total_size) ==
    [task EXCEPT !.download_size = downloaded_size,
                 !.total_size = IF total_size # 0 THEN total_size ELSE @,
                 !.progress = IF total_size # 0
                              THEN (downloaded_size * 100) \div total_size
                              ELSE @,
                 !.size_by = "progress"]

\* ProgressTracker.__call__ for one more unit, then progress_callback
worker_progress(w) ==
    /\ workers[w].pc = "running"
    /\ workers[w].downloaded < MaxBytes
    /\ LET t == workers[w].task
           n == workers[w].downloaded + 1
       IN  /\ TaskPresent(t) => source_of(tasks[t].model) = "huggingface"
           /\ workers' = [workers EXCEPT ![w].downloaded = n]
           /\ IF TaskPresent(t) /\ tasks[t].status = "downloading"
              THEN /\ tasks' = [tasks EXCEPT ![t] = update_progress(@, n, MaxBytes)]
                   /\ lastOp' = Op("worker_progress", t, TRUE, None, <<>>)
              ELSE /\ lastOp' = Op("worker_progress", t, FALSE, "not_recorded", <<>>)
                   /\ UNCHANGED tasks
    /\ UNCHANGED <<smVars, queues, dpVars, eqVars, files>>

NextDLProgress ==
    \/ NextDL
    \/ \E w \in WorkerIds : worker_progress(w)

SpecDLProgress == InitDL /\ [][NextDLProgress]_vars

(***************************************************************************)
(* EventQueue: one queue.Queue and one listener thread per EventType.      *)
(* init_event_queue runs start_listeners when the application is created;  *)
(* shutdown_event_queue runs stop_listeners from the atexit hook.          *)
(***************************************************************************)
\* the stop signal stop_listeners puts on a queue (None in the code)
StopSignal == [type |-> "stop"]

\* queue.Queue.get taking from the tail
queue_get_lifo(q) == [item |-> q[Len(q)], rest |-> SubSeq(q, 1, Len(q) - 1)]

\* queue.Queue.get on a queue that is not empty
queue_get(q) == [item |-> Head(q), rest |-> Tail(q)]

\* push_system_metrics / push_model_status / push_notification: the n-th
\* event put on the queue of event_type
push_event(event_type) ==
    /\ published[event_type] < MaxEvents
    /\ published' = [published EXCEPT ![event_type] = @ + 1]
    /\ queues' = [queues EXCEPT ![event_type] =
                     Append(@, [type |-> event_type, n |-> published[event_type] + 1])]
    /\ UNCHANGED <<dlVars, smVars, dpVars, monitor, detached, lastOp, running, callbacks, listeners,
                   delivered, exiting>>

\* register_websocket_callbacks: a callback for every event type
register_websocket_callbacks ==
    /\ callbacks # EventTypes
    /\ callbacks' = EventTypes
    /\ UNCHANGED <<dlVars, smVars, dpVars, monitor, detached, lastOp, queues, running, listeners,
                   published, delivered, exiting>>

start_listeners ==
    /\ exiting = "no"
    /\ ~running
    /\ running' = TRUE
    /\ listeners' = [ch \in EventTypes |-> [pc |-> "check"]]
    /\ UNCHANGED <<dlVars, smVars, dpVars, monitor, detached, lastOp, queues, callbacks, published,
                   delivered, exiting>>

\* _queue_listener: the test of  while self.running
listener_check(event_type) ==
    /\ listeners[event_type].pc = "check"
    /\ listeners' = [listeners EXCEPT ![event_type] =
                        IF running THEN [pc |-> "get"] ELSE [pc |-> "done"]]
    /\ UNCHANGED <<dlVars, smVars, dpVars, monitor, detached, lastOp, queues, running, callbacks,
                   published, delivered, exiting>>

\* _queue_listener: get(timeout=1) returns an item, the stop signal, or
\* raises queue.Empty
listener_get(event_type) ==
    /\ listeners[event_type].pc = "get"
    /\ IF queues[event_type] = <<>>
       THEN /\ listeners' = [listeners EXCEPT ![event_type] = [pc |-> "check"]]
            /\ UNCHANGED queues
       ELSE LET g == queue_get(queues[event_type])
            IN  /\ queues' = [queues EXCEPT ![event_type] = g.rest]
                /\ listeners' = [listeners EXCEPT ![event_type] =
                                    IF g.item.type = "stop" THEN [pc |-> "done"]
                                    ELSE [pc |-> "call", event_data |-> g.item]]
    /\ UNCHANGED <<dlVars, smVars, dpVars, monitor, detached, lastOp, running, callbacks, published,
                   delivered, exiting>>

\* _queue_listener: the callback is called with the event, or the event is
\* dropped with a warning when none is registered
listener_call(event_type) ==
    /\ listeners[event_type].pc = "call"
    /\ delivered' = IF event_type \in callbacks
                    THEN [delivered EXCEPT ![event_type] =
                             Append(@, listeners[event_type].event_data.n)]
                    ELSE delivered
    /\ listeners' = [listeners EXCEPT ![event_type] = [pc |-> "check"]]
    /\ UNCHANGED <<dlVars, smVars, dpVars, monitor, detached, lastOp, queues, running, callbacks,
                   published, exiting>>

\* stop_listeners that neither clears running nor puts the stop signals
stop_listeners_silent ==
    /\ exiting = "no"
    /\ exiting' = "stopping"
    /\ UNCHANGED <<dlVars, smVars, dpVars, monitor, detached, lastOp, queues, running, callbacks,
                   listeners, published, delivered>>

\* stop_listeners up to the joins: running cleared, a stop signal per queue
stop_listeners ==
    /\ exiting = "no"
    /\ exiting' = "stopping"
    /\ running' = FALSE
    /\ queues' = [ch \in EventTypes |-> Append(queues[ch], StopSignal)]
    /\ UNCHANGED <<dlVars, smVars, dpVars, monitor, detached, lastOp, callbacks, listeners, published,
                   delivered>>

\* stop_listeners: every join has returned (the thread ended, or 5 s passed)
stop_joined ==
    /\ exiting = "stopping"
    /\ exiting' = "stopped"
    /\ UNCHANGED <<dlVars, smVars, dpVars, monitor, detached, lastOp, queues, running, callbacks,
                   listeners, published, delivered>>

InitEQ ==
    /\ backend = "sqlite"
    /\ status = [m \in ModelKeys |-> "active"]
    /\ rowLock = [m \in ModelKeys |-> None]
    /\ txn = [c \in Callers |-> Idle]
    /\ win = [base |-> status, calls |-> <<>>]
    /\ history = <<>>
    /\ logged = 0
    /\ queues = [ch \in EventTypes |-> <<>>]
    /\ InitDeployVars
    /\ InitEQVars
    /\ InitDLVars
    /\ lastOp = NoOp

NextEQ ==
    \/ \E ch \in EventTypes : push_event(ch)
    \/ register_websocket_callbacks
    \/ start_listeners
    \/ \E ch \in EventTypes : listener_check(ch)
    \/ \E ch \in EventTypes : listener_get(ch)
    \/ \E ch \in EventTypes : listener_call(ch)
    \/ stop_listeners
    \/ stop_joined

SpecEQ == InitEQ /\ [][NextEQ]_vars

\* a publisher that publishes on a channel once its callback is registered
push_registered(event_type) ==
    /\ event_type \in callbacks
    /\ push_event(event_type)

\* the event queue with every event published after the registration
NextEQDrain ==
    \/ \E ch \in EventTypes : push_registered(ch)
    \/ register_websocket_callbacks
    \/ start_listeners
    \/ \E ch \in EventTypes : listener_check(ch)
    \/ \E ch \in EventTypes : listener_get(ch)
    \/ \E ch \in EventTypes : listener_call(ch)
    \/ stop_listeners
    \/ stop_joined

SpecEQDrain == InitEQ /\ [][NextEQDrain]_vars


(***************************************************************************)
(* Callbacks that raise.  The call of the callback sits in a try of its    *)
(* own (lines 134-138): the exception is logged, task_done() follows and   *)
(* the loop goes on.  lastOp keeps the last event a callback raised for.   *)
(***************************************************************************)
\* a listener whose thread ends when the callback raises
listener_call_raises_ends(event_type) ==
    /\ listeners[event_type].pc = "call"
    /\ event_type \in callbacks
    /\ delivered' = [delivered EXCEPT ![event_type] =
                        Append(@, listeners[event_type].event_data.n)]
    /\ listeners' = [listeners EXCEPT ![event_type] = [pc |-> "done"]]
    /\ lastOp' = Op("callback", event_type, FALSE, "raised", <<>>)
                    @@ ("n" :> listeners[event_type].event_data.n)
    /\ UNCHANGED <<dlVars, smVars, dpVars, monitor, detached, queues, running, callbacks,
                   published, exiting>>

\* _queue_listener: the callback is called with the event and raises
listener_call_raises(event_type) ==
    /\ listeners[event_type].pc = "call"
    /\ event_type \in callbacks
    /\ delivered' = [delivered EXCEPT ![event_type] =
                        Append(@, listeners[event_type].event_data.n)]
    /\ listeners' = [listeners EXCEPT ![event_type] = [pc |-> "check"]]
    /\ lastOp' = Op("callback", event_type, FALSE, "raised", <<>>)
                    @@ ("n" :> listeners[event_type].event_data.n)
    /\ UNCHANGED <<dlVars, smVars, dpVars, monitor, detached, queues, running, callbacks,
                   published, exiting>>

NextEQRaising ==
    \/ \E ch \in EventTypes : push_event(ch)
    \/ register_websocket_callbacks
    \/ start_listeners
    \/ \E ch \in EventTypes : listener_check(ch)
    \/ \E ch \in EventTypes : listener_get(ch)
    \/ \E ch \in EventTypes : listener_call(ch)
    \/ \E ch \in EventTypes : listener_call_raises(ch)
    \/ stop_listeners
    \/ stop_joined

SpecEQRaising == InitEQ /\ [][NextEQRaising]_vars

(***************************************************************************)
(* The event queue with its threads scheduled.  Each listener is a thread  *)
(* of its own and the operating system lets it run: the loop test, the     *)
(* get (which returns within its timeout of 1 s) and a callback that       *)
(* returns are each taken when they stay possible.  stop_listeners runs    *)
(* on the exiting thread, and each of its joins returns when the thread    *)
(* ends or after 5 s.  Nothing makes a producer publish or the process     *)
(* exit, so those steps carry no fairness.                                 *)
(***************************************************************************)
ListenerFairness ==
    \A ch \in EventTypes :
        /\ WF_vars(listener_check(ch))
        /\ WF_vars(listener_get(ch))
        /\ WF_vars(listener_call(ch))

SpecEQLive == InitEQ /\ [][NextEQ]_vars /\ ListenerFairness /\ WF_vars(stop_joined)

(***************************************************************************)
(* start_listeners after stop_listeners.  stop_listeners joins each thread *)
(* for at most 5 s and then clears EventQueue.listeners whether or not the *)
(* thread has ended; a later start_listeners sets running again and        *)
(* creates a thread per event type.  A thread of the run before that was   *)
(* still alive is kept in detached: it runs the same loop on the same      *)
(* queue and reads the same running flag.  exiting is "restarted" after    *)
(* the second start.                                                       *)
(***************************************************************************)
\* the thread is inside the loop of _queue_listener
Live(t) == t.pc \in {"check", "get", "call"}

\* start_listeners called after stop_listeners has returned
restart_listeners ==
    /\ exiting = "stopped"
    /\ ~running
    /\ running' = TRUE
    /\ detached' = [ch \in EventTypes |->
                       IF Live(listeners[ch]) THEN listeners[ch] ELSE NoThread]
    /\ listeners' = [ch \in EventTypes |-> [pc |-> "check"]]
    /\ exiting' = "restarted"
    /\ UNCHANGED <<dlVars, smVars, dpVars, monitor, lastOp, queues, callbacks,
                   published, delivered>>

\* _queue_listener of a thread of the run before: the test of  while self.running
detached_check(event_type) ==
    /\ detached[event_type].pc = "check"
    /\ detached' = [detached EXCEPT ![event_type] =
                       IF running THEN [pc |-> "get"] ELSE [pc |-> "done"]]
    /\ UNCHANGED <<dlVars, smVars, dpVars, monitor, lastOp, queues, running, callbacks,
                   listeners, published, delivered, exiting>>

\* _queue_listener of a thread of the run before: get(timeout=1)
detached_get(event_type) ==
    /\ detached[event_type].pc = "get"
    /\ IF queues[event_type] = <<>>
       THEN /\ detached' = [detached EXCEPT ![event_type] = [pc |-> "check"]]
            /\ UNCHANGED queues
       ELSE LET g == queue_get(queues[event_type])
            IN  /\ queues' = [queues EXCEPT ![event_type] = g.rest]
                /\ detached' = [detached EXCEPT ![event_type] =
                                   IF g.item.type = "stop" THEN [pc |-> "done"]
                                   ELSE [pc |-> "call", event_data |-> g.item]]
    /\ UNCHANGED <<dlVars, smVars, dpVars, monitor, lastOp, running, callbacks, listeners,
                   published, delivered, exiting>>

\* _queue_listener of a thread of the run before: the callback
detached_call(event_type) ==
    /\ detached[event_type].pc = "call"
    /\ delivered' = IF event_type \in callbacks
                    THEN [delivered EXCEPT ![event_type] =
                             Append(@, detached[event_type].event_data.n)]
                    ELSE delivered
    /\ detached' = [detached EXCEPT ![event_type] = [pc |-> "check"]]
    /\ UNCHANGED <<dlVars, smVars, dpVars, monitor, lastOp, queues, running, callbacks,
                   listeners, published, exiting>>

\* stop_listeners returning from its joins: a thread at its loop test or in
\* get(timeout=1) has ended within the 5 s of its join (it finds running
\* cleared, the stop signal, or an event and then running cleared); only a
\* thread inside a callback can outlast the join
stop_joined_in_time ==
    /\ \A ch \in EventTypes : listeners[ch].pc \in {"none", "done", "call"}
    /\ stop_joined

\* the event types are independent of each other: events are published on
\* one of them
Followed == {"model_status"}

NextEQRestart ==
    \/ \E ch \in Followed : push_event(ch)
    \/ register_websocket_callbacks
    \/ start_listeners
    \/ \E ch \in EventTypes : listener_check(ch)
    \/ \E ch \in EventTypes : listener_get(ch)
    \/ \E ch \in EventTypes : listener_call(ch)
    \/ stop_listeners
    \/ stop_joined_in_time
    \/ restart_listeners
    \/ \E ch \in EventTypes : detached_check(ch)
    \/ \E ch \in EventTypes : detached_get(ch)
    \/ \E ch \in EventTypes : detached_call(ch)

SpecEQRestart == InitEQ /\ [][NextEQRestart]_vars

(***************************************************************************)
(* MonitorService.  A worker thread is at the test of its loop ("test"),   *)
(* collecting and publishing ("tick"), asleep for monitor_interval         *)
(* ("sleep") or ended ("done").  monitor.thread is MonitorService's        *)
(* monitor_thread; monitor.stale is the thread an earlier start created,   *)
(* which start_monitoring overwrote in monitor_thread while it was alive.  *)
(* One such thread is followed.                                            *)
(***************************************************************************)
MonitorThreads == {"thread", "stale"}

Ticking(t) == t \in {"test", "tick", "sleep"}

\* start_monitoring: nothing when monitoring, else the flag and a new thread
start_monitoring ==
    /\ ~monitor.monitoring
    /\ ~monitor.joining
    /\ ~Ticking(monitor.stale)
    /\ monitor' = [monitor EXCEPT
                      !.monitoring = TRUE,
                      !.thread = "test",
                      !.stale = IF Ticking(monitor.thread) THEN monitor.thread
                                ELSE monitor.stale]
    /\ UNCHANGED <<dlVars, smVars, dpVars, queues, lastOp, running, callbacks,
                   listeners, published, delivered, exiting, detached>>

\* monitor_worker: the test of  while self.monitoring
monitor_test(w) ==
    /\ monitor[w] = "test"
    /\ monitor' = [monitor EXCEPT ![w] = IF monitor.monitoring THEN "tick" ELSE "done"]
    /\ UNCHANGED <<dlVars, smVars, dpVars, queues, lastOp, running, callbacks,
                   listeners, published, delivered, exiting, detached>>

\* monitor_worker: one tick, the model statuses and the system metrics
\* collected and put on their queues
monitor_tick(w) ==
    /\ monitor[w] = "tick"
    /\ \A ch \in {"model_status", "system_metrics"} : published[ch] < MaxEvents
    /\ published' = [ch \in EventTypes |->
                        IF ch \in {"model_status", "system_metrics"}
                        THEN published[ch] + 1 ELSE published[ch]]
    /\ queues' = [ch \in EventTypes |->
                     IF ch \in {"model_status", "system_metrics"}
                     THEN Append(queues[ch], [type |-> ch, n |-> published[ch] + 1])
                     ELSE queues[ch]]
    /\ monitor' = [monitor EXCEPT ![w] = "sleep"]
    /\ UNCHANGED <<dlVars, smVars, dpVars, lastOp, running, callbacks,
                   listeners, delivered, exiting, detached>>

\* monitor_worker: time.sleep(monitor_interval) returns
monitor_wake(w) ==
    /\ monitor[w] = "sleep"
    /\ monitor' = [monitor EXCEPT ![w] = "test"]
    /\ UNCHANGED <<dlVars, smVars, dpVars, queues, lastOp, running, callbacks,
                   listeners, published, delivered, exiting, detached>>

\* stop_monitoring up to its join
stop_monitoring ==
    /\ monitor.monitoring
    /\ monitor' = [monitor EXCEPT !.monitoring = FALSE, !.joining = TRUE]
    /\ UNCHANGED <<dlVars, smVars, dpVars, queues, lastOp, running, callbacks,
                   listeners, published, delivered, exiting, detached>>

\* stop_monitoring: join(timeout=5) returns.  The worker has ended, or the
\* 5 s have passed: a worker at its loop test ends at once, one that is
\* collecting (psutil.cpu_percent(interval=1) and more) or began its sleep
\* of 5 s after the join began is still alive then
stop_monitoring_joined ==
    /\ monitor.joining
    /\ monitor.thread # "test"
    /\ monitor' = [monitor EXCEPT !.joining = FALSE]
    /\ UNCHANGED <<dlVars, smVars, dpVars, queues, lastOp, running, callbacks,
                   listeners, published, delivered, exiting, detached>>

NextMonitor ==
    \/ start_monitoring
    \/ \E w \in MonitorThreads : monitor_test(w)
    \/ \E w \in MonitorThreads : monitor_tick(w)
    \/ \E w \in MonitorThreads : monitor_wake(w)
    \/ stop_monitoring
    \/ stop_monitoring_joined

SpecMonitor == InitEQ /\ [][NextMonitor]_vars

(***************************************************************************)
SpecStates == {"inactive", "downloading", "deploying", "active", "training", "error"}

SpecTable ==
    {<<"inactive", "download_started", "downloading">>,
     <<"inactive", "deploy_started", "deploying">>,
     <<"downloading", "download_completed", "inactive">>,
     <<"downloading", "download_failed", "error">>,
     <<"downloading", "download_cancelled", "inactive">>,
     <<"downloading", "deploy_started", "deploying">>,
     <<"deploying", "deploy_completed", "active">>,
     <<"deploying", "deploy_failed", "error">>,
     <<"active", "deploy_stopped", "inactive">>,
     <<"active", "health_check_failed", "error">>,
     <<"active", "deploy_started", "deploying">>,
     <<"active", "download_started", "downloading">>,
     <<"error", "download_started", "downloading">>,
     <<"error", "deploy_started", "deploying">>,
     <<"error", "manual_reset", "inactive">>,
     <<"training", "manual_reset", "inactive">>}
    \cup {<<s, "manual_error_set", "error">> :
             s \in {"inactive", "downloading", "deploying", "active", "training"}}

\* the state a stored status stands for: INACTIVE when it is no state
SpecState(stored) == IF stored \in SpecStates THEN stored ELSE "inactive"

SpecLegal(s, e) == \E t \in SpecStates : <<s, e, t>> \in SpecTable

SpecTargets(s, e) == {t \in SpecStates : <<s, e, t>> \in SpecTable}

SpecValid(s) == {e \in ModelEvent : SpecLegal(s, e)}

\* caller c returns from a transition() call in this step
Returns(c) ==
    /\ txn[c].pc = "read"
    /\ txn'[c].pc = "idle"
    /\ txn[c].kind = "transition"
    /\ txn[c].cur # NoRow

LastCall(w) == w.calls[Len(w.calls)]

\* C1: for a state s and an event e with no entry (s, e) in the transition
\* table, transition returns applied = false with the events valid in s,
\* leaves every stored status unchanged and enqueues no event.
C1_IllegalEventRejected ==
    [][\A c \in Callers :
          (Returns(c) /\ ~SpecLegal(SpecState(txn[c].cur), txn[c].arg))
          => /\ LastCall(win').caller = c
             /\ LastCall(win').applied = FALSE
             /\ LastCall(win').err = "invalid"
             /\ LastCall(win').valid = SpecValid(SpecState(txn[c].cur))
             /\ status' = status
             /\ queues' = queues]_vars

\* an illegal event was rejected: ACTIVE refuses DOWNLOAD_COMPLETED
C1_Witness ==
    /\ win.calls # <<>>
    /\ LastCall(win).kind = "transition"
    /\ LastCall(win).cur = "active"
    /\ LastCall(win).arg = "download_completed"
    /\ LastCall(win).err = "invalid"
    /\ status["m1"] = "active"

\* C2: for an entry (s, e) -> t of the transition table, transition on a
\* model whose status reads s returns applied = true and stores exactly t;
\* a transition call that changes a status stores the table target of the
\* pair it was called with and touches no other model.
C2_TableTargetWritten ==
    [][\A c \in Callers :
          Returns(c)
          => LET s == SpecState(txn[c].cur)
                 e == txn[c].arg
                 m == txn[c].model
             IN  /\ SpecLegal(s, e)
                    => /\ LastCall(win').applied = TRUE
                       /\ SpecTargets(s, e) = {status'[m]}
                 /\ status'[m] # status[m] => status'[m] \in SpecTargets(s, e)
                 /\ \A k \in ModelKeys \ {m} : status'[k] = status[k]]_vars

\* ACTIVE took MANUAL_ERROR_SET to ERROR and then MANUAL_RESET to INACTIVE
C2_Witness ==
    /\ Len(queues["model_status"]) = 2
    /\ queues["model_status"][1] = status_event("m1", "error")
    /\ queues["model_status"][2] = status_event("m1", "inactive")
    /\ win.base["m1"] = "error"
    /\ win.calls # <<>>
    /\ LastCall(win).arg = "manual_reset"
    /\ LastCall(win).applied
    /\ status["m1"] = "inactive"

\* the injective maps of 1..n onto itself
Orders(n) == {f \in [1..n -> 1..n] : \A i, j \in 1..n : f[i] = f[j] => i = j}

\* running the calls one at a time from statuses st in the order f gives
\* each call the result it returned and ends in the statuses final
RECURSIVE OneAtATime(_, _, _, _, _)
OneAtATime(st, calls, f, i, final) ==
    IF i > Len(calls) THEN st = final
    ELSE LET call == calls[f[i]]
             o == call_outcome(call.kind, st[call.model], call.arg)
         IN  /\ o.applied = call.applied
             /\ OneAtATime([st EXCEPT ![call.model] = o.new], calls, f, i + 1, final)

\* C3: concurrent transition and force_state calls on one model are
\* linearizable: once the overlapping calls have returned, the stored
\* status and every call's applied result are those of the calls run one at
\* a time in some order.
C3_Linearizable ==
    InFlight = {}
    => \E f \in Orders(Len(win.calls)) : OneAtATime(win.base, win.calls, f, 1, status)

\* C3 on the database that takes the row lock
C3_LinearizableUnderRowLock ==
    backend = "postgresql" => C3_Linearizable

(***************************************************************************)
(* force_state and the no-op transition                                    *)
(***************************************************************************)
\* caller c returns from a force_state() call on a model that has a row
ForceReturns(c) ==
    /\ txn[c].pc = "read"
    /\ txn'[c].pc = "idle"
    /\ txn[c].kind = "force"
    /\ txn[c].cur # NoRow

LastRecord(h) == h[Len(h)]

\* C11: force_state on a model that has a row succeeds whatever the status
\* read and whatever the target, stores the target, and writes one
\* state-change record flagged force_set; a record written by transition
\* never carries the flag.
C11_ForceStateAlwaysApplies ==
    [][\A c \in Callers :
          /\ ForceReturns(c)
             => /\ LastCall(win').caller = c
                /\ LastCall(win').applied = TRUE
                /\ LastCall(win').err = None
                /\ status'[txn[c].model] = txn[c].arg
                /\ Len(history') = Len(history) + 1
                /\ LastRecord(history').force_set = TRUE
                /\ LastRecord(history').model_id = txn[c].model
                /\ LastRecord(history').new_status = txn[c].arg
          /\ Returns(c)
             => \/ history' = history
                \/ /\ Len(history') = Len(history) + 1
                   /\ LastRecord(history').force_set = FALSE]_vars

\* TRAINING, which no table entry leads to, was forced on an ACTIVE model
\* after a table-driven transition had written its own record
C11_Witness ==
    /\ Len(history) = 2
    /\ history[1].force_set = FALSE
    /\ history[2].force_set = TRUE
    /\ history[1].new_status = "active"
    /\ history[2].new_status = "training"
    /\ status["m1"] = "training"
    /\ win.calls # <<>>
    /\ LastCall(win).kind = "force"
    /\ LastCall(win).applied

\* C12: when the next state transition computes equals the state the model
\* is in, as stored when the call decides and writes, the call returns
\* applied = true, writes no state-change record, publishes no ModelStatus
\* event and leaves every stored status unchanged.
C12_SameStateIsNoOp ==
    [][\A c \in Callers :
          ( /\ Returns(c)
            /\ status[txn[c].model] # NoRow
            /\ SpecTargets(SpecState(txn[c].cur), txn[c].arg)
                  = {SpecState(status[txn[c].model])} )
          => /\ LastCall(win').applied = TRUE
             /\ history' = history
             /\ queues' = queues
             /\ status' = status]_vars

\* C12 on the database that takes the row lock, where no call decides on a
\* status other than the stored one
C12_SameStateIsNoOpUnderRowLock ==
    [][backend = "postgresql" =>
          \A c \in Callers :
             ( /\ Returns(c)
               /\ SpecTargets(SpecState(txn[c].cur), txn[c].arg)
                     = {SpecState(status[txn[c].model])} )
             => /\ LastCall(win').applied = TRUE
                /\ history' = history
                /\ queues' = queues
                /\ status' = status]_vars

(***************************************************************************)
(* Deployments: ports and health events                                    *)
(***************************************************************************)
BothPresent(a, b) == a # b /\ Present(a) /\ Present(b)

\* C4: two deployments with different names, the second created while the
\* first was created and not yet started, that are both running have
\* different ports.
C4_RacedCreatesRunOnDistinctPorts ==
    \A a, b \in DeployIds :
        ( /\ BothPresent(a, b)
          /\ a \in deployments[b].beside
          /\ deployments[a].name # deployments[b].name
          /\ deployments[a].status = "running"
          /\ deployments[b].status = "running" )
        => deployments[a].port # deployments[b].port

\* C5: no two deployments in pending, deploying or running have the same port.
C5_ActivePortsUnique ==
    \A a, b \in DeployIds :
        ( /\ BothPresent(a, b)
          /\ deployments[a].status \in {"pending", "deploying", "running"}
          /\ deployments[b].status \in {"pending", "deploying", "running"} )
        => deployments[a].port # deployments[b].port

Raised(e) == \E i \in 1..Len(lastOp'.events) : lastOp'.events[i] = e

\* C6: a health check raises health_check_failed exactly when it sets
\* health_status to unhealthy and the health_status before was not unhealthy.
C6_HealthEventOnEdge ==
    [][lastOp'.op = "check_health" =>
          ( Raised("health_check_failed")
            <=> ( /\ deployments'[lastOp'.id].health_status = "unhealthy"
                  /\ deployments[lastOp'.id].health_status # "unhealthy" ) )]_vars

\* a health check of a running deployment has raised the event
C6_Witness ==
    /\ lastOp.op = "check_health"
    /\ lastOp.events = <<"health_check_failed">>
    /\ deployments[lastOp.id].health_status = "unhealthy"
    /\ deployments[lastOp.id].status = "running"

(***************************************************************************)
(* EventQueue: order of delivery                                           *)
(***************************************************************************)
\* C7: on each event type the callback is called with the events in the
\* order they were put on the queue, none before an earlier one and none
\* twice.
C7_DeliveredInPublishOrder ==
    \A ch \in EventTypes :
        \A i, j \in 1..Len(delivered[ch]) :
            i < j => delivered[ch][i] < delivered[ch][j]

\* two events of one type were delivered, and an event of another type
C7_Witness ==
    /\ delivered["model_status"] = <<1, 2>>
    /\ Len(delivered["notification"]) >= 1

C9_ProgressFullIffCompleted ==
    \A t \in TaskIds :
        TaskPresent(t) => (tasks[t].progress = 100 <=> tasks[t].status = "completed")

LaunchFailed == lastOp'.op = "start" /\ lastOp'.err = "launch"

\* the state the table of the specification leads to from s on event e; s
\* itself where the pair has no entry and the event is rejected
AfterEvent(s, e) ==
    IF SpecLegal(s, e) THEN CHOOSE t \in SpecTargets(s, e) : TRUE ELSE s

\* the state of model m when the DEPLOY_FAILED of the returning call reaches
\* the state machine
FailureArrivesIn(m) ==
    IF lastOp'.events = <<"deploy_started", "deploy_failed">>
    THEN AfterEvent(SpecState(status[m]), "deploy_started")
    ELSE SpecState(status[m])

\* C13 as stated: when the launch of start_deployment fails (the process
\* exited, the startup wait ran out or the launcher reported an error) the
\* call returns an error and, at its return, the deployment is failed and
\* its model is in ERROR.
C13_FailedLaunchMarksModelError ==
    [][LaunchFailed
       => /\ deployments'[lastOp'.id].status = "failed"
          /\ status'[deployments'[lastOp'.id].model] = "error"]_vars

\* C13 amended: when the launch of start_deployment fails the call returns
\* an error, the deployment is failed and DEPLOY_FAILED is raised; the model
\* is in ERROR when the event found it in DEPLOYING, and otherwise keeps the
\* status it had, the event being rejected by the table.
C13_FailedLaunchRaisesDeployFailed ==
    [][LaunchFailed
       => LET d == lastOp'.id
              m == deployments'[d].model
          IN  /\ deployments'[d].status = "failed"
              /\ Raised("deploy_failed")
              /\ status'[m] = AfterEvent(FailureArrivesIn(m), "deploy_failed")
              /\ FailureArrivesIn(m) = "deploying" => status'[m] = "error"
              /\ \A k \in DeployIds \ {d} : deployments'[k] = deployments[k]]_vars

\* a start whose process exited during the startup wait has returned its
\* error: the deployment is failed and the model in ERROR
C13_Witness ==
    /\ lastOp.op = "start"
    /\ lastOp.err = "launch"
    /\ lastOp.events = <<"deploy_failed">>
    /\ deployments[lastOp.id].status = "failed"
    /\ status[deployments[lastOp.id].model] = "error"
    /\ \E q \in Pids : procs[q].state = "exited"


\* thread s returns from a start_deployment call whose launch succeeded
StartSucceeds(s) ==
    /\ starters[s].pc = "waiting"
    /\ starters'[s].pc = "idle"
    /\ lastOp'.op = "start"
    /\ lastOp'.id = starters[s].dep
    /\ lastOp'.err = None

\* thread s enters the startup wait of a start_deployment call
StartBegins(s) ==
    /\ starters[s].pc # "waiting"
    /\ starters'[s].pc = "waiting"

LaunchedFor(d) ==
    {q \in Pids : \/ q = deployments[d].container_id
                  \/ \E s \in DOMAIN starters :
                        /\ starters[s].pc = "waiting"
                        /\ starters[s].dep = d
                        /\ starters[s].pid = q}

\* a start_deployment call on d gets past its status check in this step
StartCalled(d) ==
    /\ lastOp'.id = d
    /\ \/ lastOp'.op = "start_begin"
       \/ lastOp'.op = "start" /\ Raised("deploy_started")

\* C15: when stop_deployment (alone or as the first half of restart) succeeds
\* on a deployment, every process launched for it is terminated, also the one
\* a start_deployment call is still waiting for; and a stopped deployment
\* leaves status stopped only by a later start call or by its deletion.
C15_StopIsAuthoritative ==
    [][/\ (lastOp'.op \in {"stop", "restart_stop"} /\ lastOp'.err = None)
          => /\ deployments'[lastOp'.id].status = "stopped"
             /\ \A q \in LaunchedFor(lastOp'.id) : procs'[q].state = "exited"
       /\ \A d \in DeployIds :
             ( /\ deployments[d].status = "stopped"
               /\ deployments'[d].status # "stopped" )
             => StartCalled(d) \/ deployments'[d] = Deleted]_vars


(***************************************************************************)
(* Download tasks: active tasks, terminal statuses, pause                  *)
(***************************************************************************)
\* the tasks of model m that are pending or downloading
ActiveTasks(m) ==
    {t \in TaskIds : /\ TaskPresent(t)
                     /\ tasks[t].model = m
                     /\ tasks[t].status \in {"pending", "downloading"}}

\* C16: in every reachable state a model key has at most one download task
\* that is pending or downloading.
C16_OneActiveTaskPerModel ==
    \A m \in ModelKeys : Cardinality(ActiveTasks(m)) <= 1


\* C17: completed and cancelled are terminal: a task in one of them keeps its
\* status in every step, of a caller or of a worker, until delete removes it.
C17_CompletedAndCancelledTerminal ==
    [][\A t \in TaskIds :
          tasks[t].status \in {"completed", "cancelled"}
          => \/ tasks'[t].status = tasks[t].status
             \/ tasks'[t] = DeletedTask /\ lastOp'.op = "delete_task"]_vars


\* C18: while a task is paused no step of a worker changes its status, its
\* download_size or its progress; they change only with the next resume,
\* start, cancel or delete call on the task.
C18_PauseHonoured ==
    [][\A t \in TaskIds :
          ( /\ tasks[t].status = "paused"
            /\ tasks'[t] # DeletedTask
            /\ \/ tasks'[t].status # "paused"
               \/ tasks'[t].download_size # tasks[t].download_size
               \/ tasks'[t].progress # tasks[t].progress )
          => /\ lastOp'.id = t
             /\ lastOp'.op \in {"resume", "start_task", "cancel"}]_vars


\* C19: a failed task leaves status failed only in a resume, cancel or
\* delete call on it: no worker and no background task changes the status
\* of a failed task or submits its transfer again.
C19_FailedLeftOnlyByCaller ==
    [][\A t \in TaskIds :
          tasks[t].status = "failed"
          => /\ tasks'[t].status # "failed"
                => /\ lastOp'.id = t
                   /\ lastOp'.op \in {"resume", "cancel", "delete_task"}
             /\ (\E w \in WorkerIds : workers'[w] # workers[w] /\ workers'[w].pc = "queued"
                                      /\ workers'[w].task = t)
                => /\ lastOp'.id = t
                   /\ lastOp'.op = "resume"]_vars


\* C20: pause_download on a downloading task sets it to paused, raises no
\* state-machine event and leaves every model's status as it is; on a task
\* in any other status it fails and changes nothing.
C20_PauseContract ==
    [][lastOp'.op = "pause"
       => LET t == lastOp'.id
          IN  /\ lastOp'.events = <<>>
              /\ status' = status
              /\ files' = files
              /\ workers' = workers
              /\ \A k \in TaskIds \ {t} : tasks'[k] = tasks[k]
              /\ IF tasks[t].status = "downloading"
                 THEN /\ lastOp'.err = None
                      /\ tasks'[t] = [tasks[t] EXCEPT !.status = "paused"]
                 ELSE /\ lastOp'.err # None
                      /\ tasks'[t] = tasks[t]]_vars

\* a downloading task has just been paused and its model is still DOWNLOADING
C20_Witness ==
    /\ lastOp.op = "pause"
    /\ lastOp.err = None
    /\ tasks[lastOp.id].status = "paused"
    /\ status[tasks[lastOp.id].model] = "downloading"


\* C21: resume_download succeeds exactly on a paused or failed task: it sets
\* the task to downloading and submits DOWNLOAD_STARTED, which takes a model
\* in ERROR to DOWNLOADING and leaves a model in DOWNLOADING as it is; on a
\* task in any other status it fails and changes nothing.
C21_ResumeContract ==
    [][lastOp'.op = "resume"
       => LET t == lastOp'.id
              m == tasks[t].model
          IN  /\ files' = files
              /\ \A k \in TaskIds \ {t} : tasks'[k] = tasks[k]
              /\ \A k \in ModelKeys \ {m} : status'[k] = status[k]
              /\ IF tasks[t].status \in {"paused", "failed"}
                 THEN /\ lastOp'.err = None
                      /\ tasks'[t] = [tasks[t] EXCEPT !.status = "downloading"]
                      /\ lastOp'.events = <<"download_started">>
                      /\ status'[m] = IF status[m] = NoRow THEN NoRow
                                       ELSE AfterEvent(SpecState(status[m]),
                                                       "download_started")
                      /\ status[m] \in {"error", "downloading"}
                            => status'[m] = "downloading"
                 ELSE /\ lastOp'.err # None
                      /\ lastOp'.events = <<>>
                      /\ tasks'[t] = tasks[t]
                      /\ status' = status
                      /\ workers' = workers]_vars

\* a failed task has been resumed: it is downloading again and its model,
\* which the failure had left in ERROR, is DOWNLOADING
C21_Witness ==
    /\ lastOp.op = "resume"
    /\ lastOp.err = None
    /\ lastOp.task_was = "failed"
    /\ tasks[lastOp.id].status = "downloading"
    /\ status[tasks[lastOp.id].model] = "downloading"
    /\ \E w \in WorkerIds : workers[w].pc = "queued" /\ workers[w].task = lastOp.id


(***************************************************************************)
(* Deployments: names, the start guard, health checks                      *)
(***************************************************************************)
\* C22: in every reachable state no two deployments have the same name, also
\* when create_deployment calls run at the same time.
C22_NamesUnique ==
    \A a, b \in DeployIds :
       BothPresent(a, b) => deployments[a].name # deployments[b].name


(***************************************************************************)
(* Concurrent start calls on one deployment                                *)
(***************************************************************************)
\* the threads whose start_deployment call on d has launched and not returned
InFlightFor(d) ==
    {s \in DOMAIN starters : starters[s].pc = "waiting" /\ starters[s].dep = d}

\* C23: a start_deployment call on a deployment whose status is running or
\* deploying fails, launches no process and changes neither the deployment
\* nor the model, also while another start call on it is in progress; at
\* most one launch attempt per deployment is in flight at any time.
C23_OneLaunchInFlight ==
    [][/\ (lastOp'.op = "start" /\ lastOp'.err = "validation")
          => /\ deployments' = deployments
             /\ status' = status
             /\ procs' = procs
       /\ \A s \in DOMAIN starters :
             StartBegins(s)
             => /\ deployments[starters'[s].dep].status \notin {"running", "deploying"}
                /\ InFlightFor(starters'[s].dep) = {}
       /\ LaunchFailed
             => deployments[lastOp'.id].status \notin {"running", "deploying"}]_vars


(***************************************************************************)
(* Health check of a running deployment                                    *)
(***************************************************************************)
\* the process recorded for deployment d is checked and found gone
ProcessGone(d) ==
    /\ deployments[d].container_id # NoPid
    /\ ~alive(deployments[d].container_id)

\* C24: in a health check of a running deployment, a failed health probe
\* with the process still alive sets health_status to unhealthy and leaves
\* the status running; a failed process-liveness check sets health_status to
\* unhealthy and the status to stopped in the same call.
C24_ProbeVersusLiveness ==
    [][(lastOp'.op = "check_health" /\ deployments[lastOp'.id].status = "running")
       => LET d == lastOp'.id
          IN  /\ ProcessGone(d)
                 => /\ lastOp'.probe = "skipped"
                    /\ deployments'[d] = [deployments[d] EXCEPT
                                             !.health_status = "unhealthy",
                                             !.status = "stopped"]
              /\ (~ProcessGone(d) /\ lastOp'.probe = "unhealthy")
                 => deployments'[d] = [deployments[d] EXCEPT
                                          !.health_status = "unhealthy"]
              /\ ~ProcessGone(d) => /\ lastOp'.probe # "skipped"
                                    /\ deployments'[d].status = "running"]_vars

\* a health check has just stopped a deployment whose process was gone, while
\* another deployment is running and unhealthy with its process alive
C24_Witness ==
    /\ lastOp.op = "check_health"
    /\ lastOp.probe = "skipped"
    /\ deployments[lastOp.id].status = "stopped"
    /\ deployments[lastOp.id].health_status = "unhealthy"
    /\ \E d \in DeployIds :
          /\ deployments[d].status = "running"
          /\ deployments[d].health_status = "unhealthy"
          /\ deployments[d].container_id # NoPid
          /\ alive(deployments[d].container_id)


(***************************************************************************)
(* What a start call has seen when it declares the deployment running      *)
(***************************************************************************)
\* C25: a deployment's status becomes running only in a start call on it
\* that has had a health probe answered by the process it launched for the
\* deployment, whatever the model's source.
C25_RunningOnlyAfterOwnProbe ==
    [][\A d \in DeployIds :
          (deployments[d].status # "running" /\ deployments'[d].status = "running")
          => \E s \in DOMAIN starters :
                /\ StartSucceeds(s)
                /\ starters[s].dep = d
                /\ procs[starters[s].pid].state = "serving"]_vars


(***************************************************************************)
(* Failures of the record and of the notification inside transition        *)
(***************************************************************************)
\* C26: a transition call on a stored model with a table entry that changes
\* the state returns applied = true and leaves the new status stored,
\* whether or not recording the change or publishing the ModelStatus event
\* raised; the failure only leaves the record or the event out.
C26_PublishFailureIsLogged ==
    [][\A c \in Callers :
          ( /\ Returns(c)
            /\ can_transition(current_state_of(txn[c].cur), txn[c].arg)
            /\ get_next_state(current_state_of(txn[c].cur), txn[c].arg)
                  # current_state_of(txn[c].cur) )
          => /\ LastCall(win').applied
             /\ LastCall(win').err = None
             /\ status'[txn[c].model]
                   = get_next_state(current_state_of(txn[c].cur), txn[c].arg)
             /\ \A m \in ModelKeys \ {txn[c].model} : status'[m] = status[m]
             /\ queues'["model_status"] \in
                   {queues["model_status"],
                    Append(queues["model_status"],
                           status_event(txn[c].model, status'[txn[c].model]))}
             /\ history' \in
                   {history,
                    Append(history, record_state_change(txn[c].model,
                                       status'[txn[c].model], "transition"))}]_vars

\* a transition has returned applied with the new status stored although
\* neither the record nor the event was written
C26_Witness ==
    /\ InFlight = {}
    /\ Len(win.calls) = 1
    /\ win.calls[1].applied
    /\ win.calls[1].err = None
    /\ status[win.calls[1].model] # win.base[win.calls[1].model]
    /\ queues["model_status"] = <<>>
    /\ history = <<>>
    /\ logged > 0


(***************************************************************************)
(* A manager call whose state-machine call fails                           *)
(***************************************************************************)
\* C27: whatever becomes of the state-machine call a manager operation
\* raises (event rejected, model row missing, storage error), the operation
\* that reports success has its own status change stored: deploying when a
\* start begins, running when it succeeds, failed when its launch fails,
\* stopped after a stop.
C27_EventFailureKeepsOperation ==
    [][/\ (lastOp'.op = "stop" /\ lastOp'.err = None)
          => deployments'[lastOp'.id].status = "stopped"
       /\ lastOp'.op = "start_begin"
          => deployments'[lastOp'.id].status = "deploying"
       /\ (lastOp'.op = "start" /\ lastOp'.err = None)
          => deployments'[lastOp'.id].status = "running"
       /\ (lastOp'.op = "start" /\ lastOp'.err = "launch")
          => deployments'[lastOp'.id].status = "failed"]_vars


(***************************************************************************)
(* EventQueue: a callback that raises                                      *)
(***************************************************************************)
\* the callback of channel ch raises in this step
CallbackRaises(ch) ==
    /\ listeners[ch].pc = "call"
    /\ lastOp' # lastOp
    /\ lastOp'.op = "callback"
    /\ lastOp'.id = ch

\* C28: when the callback of a channel raises for an event, the listener of
\* the channel goes back to its loop and the event is neither put back nor
\* delivered again; every event the listener takes afterwards is the oldest
\* one waiting and is handed to the callback, so the events published after
\* the failing one are delivered in their order.
C28_RaisingCallbackIsSkipped ==
    [][\A ch \in EventTypes :
          /\ CallbackRaises(ch)
             => /\ listeners'[ch] = [pc |-> "check"]
                /\ queues'[ch] = queues[ch]
                /\ delivered'[ch] = Append(delivered[ch], listeners[ch].event_data.n)
          /\ (listeners[ch].pc = "get" /\ listeners'[ch].pc = "call")
             => /\ listeners'[ch].event_data = Head(queues[ch])
                /\ queues'[ch] = Tail(queues[ch])
          /\ (listeners[ch].pc = "call" /\ listeners'[ch] # listeners[ch]
                 /\ ch \in callbacks)
             => delivered'[ch] = Append(delivered[ch], listeners[ch].event_data.n)
          /\ \A i, j \in 1..Len(delivered'[ch]) :
                i < j => delivered'[ch][i] < delivered'[ch][j]]_vars

\* the callback raised for the first model_status event, and the second one
\* was delivered after it by the same listener
C28_Witness ==
    /\ lastOp.op = "callback"
    /\ lastOp.id = "model_status"
    /\ lastOp.n = 1
    /\ delivered["model_status"] = <<1, 2>>


(***************************************************************************)
(* EventQueue: shutdown                                                    *)
(***************************************************************************)
\* every listener thread that was started has left its loop
ListenersExited ==
    \A ch \in EventTypes : listeners[ch] = NoThread \/ listeners[ch].pc = "done"

\* C29: once stop_listeners has been called, every listener thread
\* eventually leaves its loop, whether its queue was empty or not (callbacks
\* return), and stop_listeners itself eventually returns.
C29_ShutdownTerminates ==
    /\ (exiting # "no") ~> ListenersExited
    /\ (exiting = "stopping") ~> (exiting = "stopped")

\* shutdown has returned and every listener has exited, one of them with an
\* event still waiting behind the stop signal's place and one with its queue
\* empty all along
C29_Witness ==
    /\ exiting = "stopped"
    /\ \A ch \in EventTypes : listeners[ch] # NoThread /\ listeners[ch].pc = "done"
    /\ published["system_metrics"] = 0
    /\ published["model_status"] > 0
    /\ queues["model_status"] # <<>>


Consuming(t) == t.pc \in {"get", "call"}

\* C31: on no event type are two listener threads taking events from the
\* queue at a time: a stop followed by a start leaves no thread of the run
\* before beside the new one.
C31_OneListenerPerChannel ==
    \A ch \in EventTypes : ~(Consuming(listeners[ch]) /\ Consuming(detached[ch]))


(***************************************************************************)
(* MonitorService: start after stop                                        *)
(***************************************************************************)
\* C32: at most one monitor worker is ticking at a time: the worker of an
\* earlier start never collects and publishes while the worker of the
\* current start is in its loop.
C32_OneMonitorWorker ==
    ~(monitor.stale = "tick" /\ Ticking(monitor.thread))


\* C33: a deployment's status changes only in create, start, stop, restart,
\* delete or checkHealth (get status, list and get logs change none), and
\* every change to stopped comes with a deploy_stopped or
\* health_check_failed event raised by the same call
StatusWriters ==
    {"create", "start", "start_begin", "start_wait", "stop", "restart",
     "restart_stop", "delete", "check_health"}

StoppedEvents == {"deploy_stopped", "health_check_failed"}

C33_StatusFrame ==
    [][\A d \in DeployIds :
          deployments'[d].status # deployments[d].status
          => /\ lastOp'.op \in StatusWriters
             /\ deployments'[d].status = "stopped"
                => \E i \in DOMAIN lastOp'.events :
                      lastOp'.events[i] \in StoppedEvents]_vars


\* C34: while some deployment of a model is running, the model's status is
\* not inactive
C34_RunningModelNotInactive ==
    \A d \in DeployIds :
       deployments[d].status = "running"
       => status[deployments[d].model] # "inactive"


\* C35: after a successful stop of a deployment that was deploying, with no
\* other deployment of its model deploying or running, the model's status is
\* no longer deploying
InProgressFor(deps, m) ==
    {k \in DeployIds : /\ deps[k].status \in {"deploying", "running"}
                       /\ deps[k].model = m}

C35_StopLeavesDeploying ==
    [][(/\ lastOp'.op = "stop"
        /\ lastOp'.err = None
        /\ deployments[lastOp'.id].status = "deploying"
        /\ InProgressFor(deployments', deployments[lastOp'.id].model) = {})
       => status'[deployments[lastOp'.id].model] # "deploying"]_vars


\* C36: a model_status event enqueued by transition or force_state reports
\* the status the row holds when the call returns, and that call returns
\* applied
C36_PublishedStatusIsStored ==
    [][Len(queues'["model_status"]) > Len(queues["model_status"])
       => LET ev == queues'["model_status"][Len(queues'["model_status"])]
              call == win'.calls[Len(win'.calls)]
          IN  /\ status'[ev.id] = ev.status
              /\ call.applied]_vars


\* C37: after stop_listeners followed by start_listeners every channel has a
\* live listener of the new run: no stop signal of the shutdown before ends
\* one (nothing stops the listeners again after the restart)
C37_RestartedListenersLive ==
    exiting = "restarted" => \A ch \in EventTypes : Live(listeners[ch])


\* C38: an event enqueued on a channel before stop_listeners, while the
\* channel has a registered callback, is delivered before the channel's
\* listener exits: with every event published after the registration, a
\* listener that has exited in the shutdown leaves no event in front of the
\* stop signal
PendingBeforeStop(ch) ==
    {i \in 1..Len(queues[ch]) :
        /\ queues[ch][i].type # "stop"
        /\ \E j \in (i + 1)..Len(queues[ch]) : queues[ch][j].type = "stop"}

ExitedInShutdown(ch) ==
    exiting \in {"stopping", "stopped"} /\ listeners[ch].pc = "done"

C38_ShutdownDrains ==
    \A ch \in EventTypes : ExitedInShutdown(ch) => PendingBeforeStop(ch) = {}

\* C39: after a successful delete of a download task, with no other task of
\* its model pending, downloading or paused, the model's status is not
\* downloading
ActiveTasksFor(ts, m) ==
    {k \in TaskIds : /\ ts[k].status \in {"pending", "downloading", "paused"}
                     /\ ts[k].model = m}

C39_DeleteLeavesDownloading ==
    [][(/\ lastOp'.op = "delete_task"
        /\ lastOp'.err = None
        /\ ActiveTasksFor(tasks', tasks[lastOp'.id].model) = {})
       => status'[tasks[lastOp'.id].model] # "downloading"]_vars


\* C40: a health check of a deployment that is not running leaves the status
\* of the deployment's model as it was
C40_IdleHealthCheckKeepsModel ==
    [][(/\ lastOp'.op = "check_health"
        /\ deployments[lastOp'.id].status # "running")
       => status'[deployments[lastOp'.id].model]
             = status[deployments[lastOp'.id].model]]_vars

=============================================================================
